---- MODULE Spec2Model ----
(***************************************************************************)
(* A model of tubular's change-detection and delivery pipeline:            *)
(*   src/src/webhook.py     WebhookForwarder (forward_event, the pending   *)
(*                          ring failed_events, retry_failed_events)       *)
(*   src/src/api_client.py  YouTubeAPIClient (quota flag and counter, rate *)
(*                          window, the three gateway operations)          *)
(*   src/src/monitor.py     YouTubeLiveMonitor (_polling_loop,             *)
(*                          _check_live_streams, _monitor_chat)            *)
(* Time is in seconds.  An HTTP exchange takes no model time; the sleeps   *)
(* of the code advance the clock by their exact length.                    *)
(***************************************************************************)
EXTENDS Integers, Sequences, FiniteSets, TLC

VARIABLES
    clock,              \* datetime.now(timezone.utc), in seconds
    failed_events,      \* WebhookForwarder.failed_events: <<event_type, event_data, timestamp>>
    sweep_pc,           \* position of a running retry_failed_events
    failed_copy,        \* retry_failed_events: the not yet visited rest of failed_copy
    handed,             \* history: number of top-level forward_event calls made so far
    delivered,          \* history: payloads for which some POST succeeded
    dropped_overflow,   \* history: payloads of entries the full deque pushed out
    dropped_stale,      \* history: payloads of entries a sweep skipped as stale
    first_enqueue,      \* history: payload -> clock of its first enqueue into the ring
    stale_post,         \* history: a sweep POSTed an event first enqueued over 1 hour before
    last_fwd,           \* history: input and result of the last top-level forward_event
    sweep0,             \* history: Len(failed_events) and clock when the running/last sweep started
    calls,              \* history: number of forward_event invocations (re-attempts included)
    quota_exceeded,     \* YouTubeAPIClient.quota_exceeded
    quota_used_today,   \* YouTubeAPIClient.quota_used_today
    quota_reset_date,   \* YouTubeAPIClient.quota_reset_date, in days
    api_calls,          \* YouTubeAPIClient.api_calls: timestamps of the recorded calls
    redis_quota,        \* the record stored under tubular:quota: <<used, reset_date>> or <<>>
    api_n,              \* history: number of gateway operations invoked
    upstream_requests,  \* history: number of HTTP requests sent upstream
    last_api,           \* history: the last gateway operation and what it returned
    call_log,           \* history: the timestamps of the recorded calls of a burst, in order
    ticks,              \* history: number of clock advances between handlers
    active_streams,     \* YouTubeLiveMonitor.active_streams: video id -> details snapshot
    active_order,       \* the insertion order of the keys of active_streams
    chat_page_tokens,   \* YouTubeLiveMonitor.chat_page_tokens: video id -> page token
    last_broadcast_check, \* YouTubeLiveMonitor.last_broadcast_check
    retry_counter,      \* _polling_loop: retry_counter
    poll_interval,      \* config.poll_interval
    stats,              \* monitor.stats: events_forwarded and api_calls
    running,            \* monitor.running: set by start(), cleared by stop()
    disable_idle_polling, \* config.disable_idle_polling
    pc,                 \* position of the polling task
    todo,               \* the not yet visited rest of the list a check iterates over
    current_stream_ids, \* _check_live_streams: current_stream_ids
    ended_streams,      \* _check_live_streams: the not yet visited rest of ended_streams
    chat_video,         \* _monitor_chat: video_id of the running call
    cycles,             \* history: number of finished loop iterations
    check0,             \* history: path, list response and state at the start of the running/last check
    check_events,       \* history: <<event_type, video_id>> handed in the running/last check
    fetched,            \* history: video id -> details fetched in the running/last check
    last_lifecycle,     \* history: video id -> "none" / "started" / an AfterEnded value
    ended_twice,        \* history: an ended event was handed for an id whose last one was ended
    scen_log,           \* history: <<event_type, event_data>> handed under the reference scenario
    posts,              \* history: number of POST requests the callback server has handled
    last_post,          \* history: the last POST request handled: notification, calls made, events handed, status sent
    gets,               \* history: number of GET requests the callback server has handled
    last_get,           \* history: the last GET request handled and the response sent
    check_calls,        \* history: <<operation, video_id>> of the gateway operations the running check has called
    last_chat,          \* history: the last _monitor_chat of the running check: video, page, events handed
    webhook_secret,     \* config.webhook_secret, "" when none is configured
    last_requests,      \* history: the POST requests the last top-level forward_event sent
    in_sweep,           \* history: the tasks with a retry_failed_events execution in progress
    rec_pc,             \* task -> where its _record_api_call execution stands
    rec_local,          \* task -> the locals of that execution: operation, today, the counter value read; and the call's place in race_log
    race_log,           \* history: <<time, cost, date>> of the calls recorded, in the order of their appends: the timestamp appended, the cost, and the date the call took as today
    state_file,         \* the file tubular_state.pkl as it is on disk
    last_save,          \* history: the last _save_state: its outcome, the memory it was given, and the memory the last completed one was given
    loads,              \* history: number of times the monitor was constructed again
    last_load,          \* history: the last construction: the file _load_state found, whether it raised, the quota record and whether Redis answered, the time, the counter of the old process
    upstream,           \* the upstream's condition during the running iteration
    receiver_up         \* whether the receiver takes POSTs during the running iteration

fwdVars == <<failed_events, sweep_pc, failed_copy>>
fwdHist == <<handed, delivered, dropped_overflow, dropped_stale, first_enqueue,
             stale_post, last_fwd, sweep0, calls>>
apiVars == <<quota_exceeded, quota_used_today, quota_reset_date, api_calls,
             redis_quota>>
apiHist == <<api_n, upstream_requests, last_api, call_log>>
monVars == <<active_streams, active_order, chat_page_tokens,
             last_broadcast_check, retry_counter, poll_interval,
             disable_idle_polling, running, stats, pc, todo, current_stream_ids,
             ended_streams, chat_video, upstream, receiver_up>>
checkHist == <<cycles, check0, check_events, fetched, last_lifecycle,
               ended_twice, scen_log, last_chat, check_calls>>
\* the tasks beside the polling loop, and history about them
postHist == <<posts, last_post>>
getHist == <<gets, last_get>>
signVars == <<webhook_secret, last_requests>>
raceVars == <<rec_pc, rec_local, race_log>>
taskVars == <<in_sweep, raceVars>>
sideVars == <<postHist, getHist, signVars, taskVars>>
\* the state file and history about it
fileVars == <<state_file, last_save, loads, last_load>>
monHist == <<checkHist, sideVars, fileVars>>
vars == <<clock, ticks, fwdVars, fwdHist, apiVars, apiHist, monVars, monHist>>

(***************************************************************************)
(* Program constants                                                       *)
(***************************************************************************)
MaxRetries == 3             \* webhook.py:58  retry_count < 3
StaleHorizon == 3600        \* webhook.py:84  timedelta(hours=1)
ApiCallsMaxLen == 100       \* api_client.py:24  deque(maxlen=100)
RateWindow == 60            \* api_client.py:88  timedelta(minutes=1)
RateLimitCalls == 50        \* api_client.py:92  len(self.api_calls) >= 50
DayLength == 86400          \* seconds of a UTC calendar date
BroadcastCheckInterval == 300   \* monitor.py:288  time_since_last_check < 300
ViewerDiffThreshold == 100      \* monitor.py:395  viewer_diff > 100
SweepEvery == 10            \* monitor.py:261  retry_counter % 10 == 0
SaveEvery == 5              \* monitor.py:265  retry_counter % 5 == 0
\* monitor.py:312 and 395: change > 0.1, as the fraction PctNum / PctDen
PctNum == 1
PctDen == 10

(***************************************************************************)
(* Bounds of the model                                                     *)
(***************************************************************************)
\* failed_events is deque(maxlen=100) in the source; the model is written for
\* any capacity and checked at a small one.
RingCapacity == 2
\* forward_event invocations (top-level calls plus sweep re-attempts) per behaviour
MaxCalls == 4
\* clock advances between handlers per behaviour
MaxTicks == 2
\* The rate limiter's threshold is 50 calls in the source (RateLimitCalls);
\* the bursts of SpecRate are checked against a small one.
BurstCapacity == 2
\* recorded calls per behaviour of SpecRate
MaxBurst == 4
\* gateway operations per behaviour of the API client on its own
MaxApiCalls == 3
\* iterations of the polling loop per behaviour
MaxCycles == 2
MaxSmartCycles == 4
MaxViewerCycles == 3
\* iterations of the polling loop, and POST requests to the callback server,
\* per behaviour of the two tasks together
MaxCallbackCycles == 1
MaxStateCycles == 2
MaxLoads == 1
\* loop iterations per behaviour of SpecShutdown
MaxShutdownCycles == 2
\* iterations of the polling loop in the lifecycle runs
MaxLifecycleCycles == 5
\* iterations of the polling loop in the event-order runs
MaxOrderCycles == 2
\* iterations of the polling loop in the chat-cursor runs
MaxChatCycles == 2
\* gateway calls per behaviour of SpecRace
MaxRaceCalls == 3
\* top-level forward_event calls per behaviour of SpecSign
MaxSignCalls == 2
\* forward_event invocations per behaviour of SpecTasks
MaxTaskCalls == 3
\* gateway operations per behaviour of SpecQuota
MaxQuotaCalls == 2
MaxPosts == 1
\* GET requests to the callback server per behaviour
MaxGets == 3

TickSteps == {1800, 3600}
\* The receiver's answer to one forward_event: the number of the first POST
\* attempt that succeeds, 0 when none of the attempts made succeeds.
AttemptOutcomes == 0..(MaxRetries + 1)
HarnessEventType == "youtube.live.update"
SignEventTypes == {"youtube.live.update", "youtube.live.ended"}

(***************************************************************************)
(* WebhookForwarder                                                        *)
(***************************************************************************)
\* a list that is not bounded
DequeAppend_Unbounded(q, x, maxlen) == Append(q, x)

\* collections.deque(maxlen=n).append(x)
DequeAppend(q, x, maxlen) ==
    IF Len(q) >= maxlen THEN Append(Tail(q), x) ELSE Append(q, x)

\* the entry a full deque pushes out on append, as a set
DequeEvicted(q, maxlen) ==
    IF Len(q) >= maxlen THEN {Head(q)[2]} ELSE {}

\* one retry too few
ShouldRetry_TwoRetries(retry_count) == retry_count < MaxRetries - 1

\* webhook.py:58
ShouldRetry(retry_count) == retry_count < MaxRetries

\* a wait that grows by one second per retry
WaitTime_Linear(retry_count) == retry_count + 1

\* webhook.py:59  wait_time = 2**retry_count
WaitTime(retry_count) == 2 ^ retry_count

\* webhook.py:84  (now - timestamp) > timedelta(hours=1)
IsStale(now, timestamp) == (now - timestamp) > StaleHorizon

\* forward_event(event_type, event_data, retry_count) with the ring `ring` at
\* time `now`, when POST attempt number `outcome` is the first to succeed
\* (0: none does).  Returns the ring, the clock, the return value, the number
\* of POSTs made and the sleeps taken.
RECURSIVE ForwardEvent(_, _, _, _, _, _, _)
ForwardEvent(ring, now, event_type, event_data, retry_count, outcome, waits) ==
    IF outcome = retry_count + 1
    THEN [failed_events |-> ring, now |-> now, ret |-> TRUE,
          posts |-> retry_count + 1, waits |-> waits]
    ELSE IF ShouldRetry(retry_count)
    THEN ForwardEvent(ring, now + WaitTime(retry_count), event_type, event_data,
                      retry_count + 1, outcome,
                      Append(waits, WaitTime(retry_count)))
    ELSE [failed_events |-> DequeAppend(ring, <<event_type, event_data, now>>,
                                        RingCapacity),
          now |-> now, ret |-> FALSE,
          posts |-> retry_count + 1, waits |-> waits]

\* webhook.py:29-34: the envelope of one attempt
Envelope(event_type, event_data, now) ==
    [event_type |-> event_type, event |-> event_data, timestamp |-> now,
     source |-> "youtube"]

\* json.dumps(payload), which is also what session.post(json=payload) puts
\* into the request body: the keys in insertion order, ", " and ": " as
\* separators
JsonDumps(payload) ==
    "{\"event_type\": \"" \o payload.event_type
        \o "\", \"event\": " \o ToString(payload.event)
        \o ", \"timestamp\": \"" \o ToString(payload.timestamp)
        \o "\", \"source\": \"" \o payload.source \o "\"}"

\* webhook.py:90-96: hmac.new(secret, payload, sha256).hexdigest(), kept as
\* a term: two digests are equal exactly when key and message are
HmacSha256Hex(key, message) == "hmac-sha256(" \o key \o ", " \o message \o ")"

NoSecret == ""
SignatureHeader == "X-Hub-Signature"

\* headers signed whether or not a secret is configured
Headers_Always(secret, payload) ==
    {<<"Content-Type", "application/json">>,
     <<"User-Agent", "Tubular-YouTube-Webhook-Forwarder/1.0">>,
     <<SignatureHeader,
       "sha256=" \o HmacSha256Hex(secret, JsonDumps(payload))>>}

\* webhook.py:36-44: the headers of one attempt, as name/value pairs
Headers(secret, payload) ==
    {<<"Content-Type", "application/json">>,
     <<"User-Agent", "Tubular-YouTube-Webhook-Forwarder/1.0">>}
        \cup (IF secret # NoSecret
              THEN {<<SignatureHeader,
                      "sha256=" \o HmacSha256Hex(secret, JsonDumps(payload))>>}
              ELSE {})

\* the POST requests of forward_event(event_type, event_data, retry_count)
\* called at `now`, when POST attempt number `outcome` is the first to
\* succeed (0: none does); every retry is a forward_event call of its own
\* (line 61) and builds and signs its own envelope
RECURSIVE Requests(_, _, _, _, _, _)
Requests(now, event_type, event_data, secret, retry_count, outcome) ==
    LET payload == Envelope(event_type, event_data, now)
        request == [headers |-> Headers(secret, payload),
                    body |-> JsonDumps(payload), at |-> now]
    IN  IF outcome = retry_count + 1 \/ ~ShouldRetry(retry_count)
        THEN <<request>>
        ELSE <<request>> \o Requests(now + WaitTime(retry_count), event_type,
                                     event_data, secret, retry_count + 1,
                                     outcome)

\* history kept along a forward_event made on ring `ring`
FirstEnqueue(fe, event_data, now) ==
    IF event_data \in DOMAIN fe THEN fe
    ELSE [p \in DOMAIN fe \cup {event_data} |->
            IF p = event_data THEN now ELSE fe[p]]

\* A top-level forward_event(event_type, event_data) call made at time `now`
Forwarded(ring, now, event_type, event_data, outcome) ==
    ForwardEvent(ring, now, event_type, event_data, 0, outcome, <<>>)

\* the forwarder's history after the top-level call with result r
ForwardEventHist(r, event_type, event_data, outcome) ==
    /\ handed' = handed + 1
    /\ calls' = calls + 1
    /\ delivered' = IF r.ret THEN delivered \cup {event_data} ELSE delivered
    /\ dropped_overflow' =
          IF r.ret THEN dropped_overflow
          ELSE dropped_overflow \cup DequeEvicted(failed_events, RingCapacity)
    /\ first_enqueue' =
          IF r.ret THEN first_enqueue
          ELSE FirstEnqueue(first_enqueue, event_data, r.now)
    /\ last_fwd' = [outcome |-> outcome, ret |-> r.ret, posts |-> r.posts,
                    waits |-> r.waits, event_type |-> event_type,
                    event_data |-> event_data]

\* retry_failed_events, lines 75-79: return on an empty ring, else take the copy
SweepCopy ==
    /\ sweep_pc = "idle"
    /\ IF failed_events = <<>>
       THEN /\ sweep_pc' = "done"
            /\ failed_copy' = <<>>
       ELSE /\ sweep_pc' = "clear"
            /\ failed_copy' = failed_events
    /\ UNCHANGED <<clock, failed_events>>

SweepCopyHist ==
    /\ sweep0' = [len |-> Len(failed_events), clock |-> clock]
    /\ UNCHANGED <<handed, delivered, dropped_overflow, dropped_stale,
                   first_enqueue, stale_post, last_fwd, calls>>

\* retry_failed_events, line 80: self.failed_events.clear()
SweepClear ==
    /\ sweep_pc = "clear"
    /\ failed_events' = <<>>
    /\ sweep_pc' = "entry"
    /\ UNCHANGED <<clock, failed_copy>>

\* a loop that also visits what its own turns have put back
SweepEntry_Live(outcome) ==
    /\ sweep_pc = "entry"
    /\ failed_copy # <<>>
    /\ LET e == Head(failed_copy)
           r == Forwarded(failed_events, clock, e[1], e[2], outcome)
       IN  IF IsStale(clock, e[3])
           THEN /\ failed_copy' = Tail(failed_copy)
                /\ UNCHANGED <<clock, failed_events>>
           ELSE /\ clock' = r.now
                /\ failed_events' =
                      IF r.ret THEN r.failed_events
                      ELSE DequeAppend(r.failed_events, e, RingCapacity)
                /\ failed_copy' =
                      IF r.ret THEN Tail(failed_copy)
                      ELSE Append(Tail(failed_copy), e)
    /\ sweep_pc' = IF failed_copy' = <<>> THEN "done" ELSE "entry"

\* retry_failed_events, lines 82-88: one turn of the loop over failed_copy
SweepEntry(outcome) ==
    /\ sweep_pc = "entry"
    /\ failed_copy # <<>>
    /\ LET e == Head(failed_copy)
           r == Forwarded(failed_events, clock, e[1], e[2], outcome)
       IN  IF IsStale(clock, e[3])
           THEN UNCHANGED <<clock, failed_events>>
           ELSE /\ clock' = r.now
                /\ failed_events' =
                      IF r.ret THEN r.failed_events
                      ELSE DequeAppend(r.failed_events, e, RingCapacity)
    /\ failed_copy' = Tail(failed_copy)
    /\ sweep_pc' = IF Tail(failed_copy) = <<>> THEN "done" ELSE "entry"

SweepEntryHist(outcome) ==
    /\ LET e == Head(failed_copy)
           r == Forwarded(failed_events, clock, e[1], e[2], outcome)
       IN  IF IsStale(clock, e[3])
           THEN /\ dropped_stale' = dropped_stale \cup {e[2]}
                /\ UNCHANGED <<delivered, dropped_overflow, stale_post, calls>>
           ELSE /\ calls' = calls + 1
                /\ delivered' = IF r.ret THEN delivered \cup {e[2]} ELSE delivered
                /\ dropped_overflow' =
                      IF r.ret THEN dropped_overflow
                      ELSE dropped_overflow
                             \cup DequeEvicted(failed_events, RingCapacity)
                             \cup DequeEvicted(r.failed_events, RingCapacity)
                /\ stale_post' = (stale_post \/ IsStale(clock, first_enqueue[e[2]]))
                /\ UNCHANGED dropped_stale
    /\ UNCHANGED <<handed, first_enqueue, last_fwd, sweep0>>

\* retry_failed_events returns to its caller
SweepReturn ==
    /\ sweep_pc = "done"
    /\ sweep_pc' = "idle"
    /\ UNCHANGED <<clock, failed_events, failed_copy>>

(***************************************************************************)
(* YouTubeAPIClient                                                        *)
(***************************************************************************)
\* What the upstream does with one request:
\*   "transport"    session.get raises requests.RequestException
\*   "quota_error"  a body with error.code 403 and reason quotaExceeded or
\*                  dailyLimitExceeded
\*   "error"        any other error body, or a body that is not JSON
\*   "ok"           a body without "error"
UpstreamOutcomes == {"transport", "quota_error", "error", "ok"}
Operations == {"search", "videos", "liveChatMessages"}

\* api_client.py:34  self.quota_costs, and .get(operation, 1)
QuotaCost(operation) ==
    CASE operation = "search" -> 100
      [] operation = "videos" -> 1
      [] operation = "liveChatMessages" -> 5
      [] OTHER -> 1

\* the threads that call the gateway operations of the one API client:
\* the polling loop (monitor.py:278-452) and the callback server's handler
\* (server.py:188-190)
ApiTasks == {"polling", "server"}
NoRecordLocals == [operation |-> "", today |-> 0, used |-> 0, entry |-> 0]

\* datetime.date() of a clock value
DateOf(now) == now \div DayLength

\* api_client.py:88-89: drop the calls older than one minute from the front
RECURSIVE EvictOld(_, _)
EvictOld(calls_, now) ==
    IF calls_ # <<>> /\ (now - Head(calls_)) > RateWindow
    THEN EvictOld(Tail(calls_), now)
    ELSE calls_

\* _check_rate_limit with the threshold `capacity`: the window after the
\* eviction and the clock after the sleep
CheckRateLimitAt(calls_, now, capacity) ==
    LET kept == EvictOld(calls_, now)
        wait_time == IF Len(kept) >= capacity
                     THEN RateWindow - (now - Head(kept)) ELSE 0
    IN  [api_calls |-> kept,
         now |-> IF wait_time > 0 THEN now + wait_time ELSE now]

\* _check_rate_limit
CheckRateLimit(calls_, now) == CheckRateLimitAt(calls_, now, RateLimitCalls)

\* the counter carried over the date change
RecordApiCall_NoReset(calls_, used, reset_date, stored, now, operation, redis_ok) ==
    [api_calls |-> DequeAppend(calls_, now, ApiCallsMaxLen),
     quota_used_today |-> used + QuotaCost(operation),
     quota_reset_date |-> DateOf(now),
     redis_quota |-> IF redis_ok THEN <<used + QuotaCost(operation), DateOf(now)>>
                     ELSE stored]

\* a counter that holds the cost of the last call only
RecordApiCall_LastCost(calls_, used, reset_date, stored, now, operation, redis_ok) ==
    [api_calls |-> DequeAppend(calls_, now, ApiCallsMaxLen),
     quota_used_today |-> QuotaCost(operation),
     quota_reset_date |-> DateOf(now),
     redis_quota |-> IF redis_ok THEN <<QuotaCost(operation), DateOf(now)>>
                     ELSE stored]

\* _record_api_call(operation), with _save_quota_to_redis succeeding or not
RecordApiCall(calls_, used, reset_date, stored, now, operation, redis_ok) ==
    LET today == DateOf(now)
        used0 == IF today # reset_date THEN 0 ELSE used
        used1 == used0 + QuotaCost(operation)
    IN  [api_calls |-> DequeAppend(calls_, now, ApiCallsMaxLen),
         quota_used_today |-> used1,
         quota_reset_date |-> today,
         redis_quota |-> IF redis_ok THEN <<used1, today>> ELSE stored]

\* What the upstream sends back to session.get: nothing (the request raises
\* requests.RequestException), a body that is no JSON, a JSON body with data,
\* or a JSON body with "error": its "code" and the "reason" of each of its
\* "errors".
Transport == [kind |-> "transport", code |-> 0, reasons |-> <<>>]
Unparsable == [kind |-> "unparsable", code |-> 0, reasons |-> <<>>]
Data == [kind |-> "data", code |-> 0, reasons |-> <<>>]
ErrorBody(code, reasons) == [kind |-> "error", code |-> code, reasons |-> reasons]
QuotaReasons == {"quotaExceeded", "dailyLimitExceeded"}
ApiResponses ==
    {Transport, Unparsable, Data,
     ErrorBody(403, <<"dailyLimitExceeded">>),
     ErrorBody(403, <<"forbidden", "quotaExceeded">>),
     ErrorBody(403, <<"forbidden">>),
     ErrorBody(429, <<"quotaExceeded">>)}

\* the reason is looked at whatever the code
IsQuotaError_AnyCode(response) ==
    /\ response.kind = "error"
    /\ \E i \in 1..Len(response.reasons) : response.reasons[i] \in QuotaReasons

\* _handle_api_response, lines 167-174: code 403 and a quota reason among the errors
IsQuotaError(response) ==
    /\ response.kind = "error"
    /\ response.code = 403
    /\ \E i \in 1..Len(response.reasons) : response.reasons[i] \in QuotaReasons

\* a failed request taken for an answer with data
ResponseOutcome_TransportOk(response) ==
    CASE response.kind \in {"transport", "data"} -> "ok"
      [] IsQuotaError(response) -> "quota_error"
      [] OTHER -> "error"

\* the upstream's answer as the gateway operations tell it apart
ResponseOutcome(response) ==
    CASE response.kind = "transport" -> "transport"
      [] response.kind = "data" -> "ok"
      [] IsQuotaError(response) -> "quota_error"
      [] OTHER -> "error"

\* _handle_api_response: the new value of quota_exceeded
HandleApiResponse(exceeded, outcome) == exceeded \/ outcome = "quota_error"

\* lines 189-208, 215-235, 244-264: the request of a gateway operation
GatewayRequest(operation, outcome, redis_ok) ==
    LET rl == CheckRateLimit(api_calls, clock)
        rec == RecordApiCall(rl.api_calls, quota_used_today, quota_reset_date,
                             redis_quota, rl.now, operation, redis_ok)
    IN  IF outcome = "transport"
        THEN [performed |-> TRUE, recorded |-> FALSE, ok |-> FALSE,
              outcome |-> outcome, now |-> rl.now,
              api_calls |-> rl.api_calls,
              quota_used_today |-> quota_used_today,
              quota_reset_date |-> quota_reset_date,
              redis_quota |-> redis_quota,
              quota_exceeded |-> quota_exceeded]
        ELSE [performed |-> TRUE, recorded |-> TRUE, ok |-> (outcome = "ok"),
              outcome |-> outcome, now |-> rl.now,
              api_calls |-> rec.api_calls,
              quota_used_today |-> rec.quota_used_today,
              quota_reset_date |-> rec.quota_reset_date,
              redis_quota |-> rec.redis_quota,
              quota_exceeded |-> HandleApiResponse(quota_exceeded, outcome)]

\* the request is made whatever the flag says
GatewayCall_NoGate(operation, outcome, redis_ok) ==
    GatewayRequest(operation, outcome, redis_ok)

\* lines 186-187, 212-213, 241-242: if self.quota_exceeded: return the empty result
GatewayCall(operation, outcome, redis_ok) ==
    IF quota_exceeded
    THEN [performed |-> FALSE, recorded |-> FALSE, ok |-> FALSE,
          outcome |-> "none", now |-> clock,
          api_calls |-> api_calls,
          quota_used_today |-> quota_used_today,
          quota_reset_date |-> quota_reset_date,
          redis_quota |-> redis_quota,
          quota_exceeded |-> quota_exceeded]
    ELSE GatewayRequest(operation, outcome, redis_ok)

\* the client's state after the gateway call whose effect is g; the caller
\* sets the clock (other sleeps may follow in its handler)
ApiState(g) ==
    /\ api_calls' = g.api_calls
    /\ quota_used_today' = g.quota_used_today
    /\ quota_reset_date' = g.quota_reset_date
    /\ redis_quota' = g.redis_quota
    /\ quota_exceeded' = g.quota_exceeded

\* the client's state and history after the gateway call whose effect is g,
\* which returned `result`
ApiApply(g, operation, result, response) ==
    /\ ApiState(g)
    /\ api_n' = api_n + 1
    /\ upstream_requests' = upstream_requests + (IF g.performed THEN 1 ELSE 0)
    /\ call_log' = call_log
    /\ last_api' = [operation |-> operation, result |-> result,
                    response |-> response,
                    gated |-> quota_exceeded, performed |-> g.performed,
                    recorded |-> g.recorded, ok |-> g.ok,
                    outcome |-> g.outcome, at |-> g.now,
                    used_before |-> quota_used_today,
                    date_before |-> quota_reset_date,
                    window_before |-> api_calls, called_at |-> clock]

\* What the operations return.  get_live_broadcasts: the video ids of the
\* items, in order.  get_video_details: the item, or None.  Of an item the
\* model keeps whether it has "liveStreamingDetails" and, inside it,
\* concurrentViewers (0 also stands for an absent count, as .get(..., 0)
\* reads it) and whether it has "activeLiveChatId".  get_live_chat_messages:
\* the page, or {}.  Of a page the model keeps the message types of its items
\* and nextPageToken ("" also stands for an absent token, as .get(..., "")
\* reads it).
None == [present |-> FALSE, lsd |-> FALSE, viewers |-> 0, chat |-> FALSE]
Item(lsd, viewers, chat) ==
    [present |-> TRUE, lsd |-> lsd, viewers |-> viewers, chat |-> chat]
EmptyDict == [present |-> FALSE, items |-> <<>>, nextPageToken |-> ""]
Page(items, token) == [present |-> TRUE, items |-> items, nextPageToken |-> token]

EmptyResult(operation) ==
    CASE operation = "search" -> <<>>
      [] operation = "videos" -> None
      [] operation = "liveChatMessages" -> EmptyDict

(***************************************************************************)
(* YouTubeLiveMonitor (src/src/monitor.py)                                 *)
(***************************************************************************)
Videos == {"V1", "V2"}
\* get_live_broadcasts answers: the listed video ids, in order
ListResponses == {<<>>, <<"V1">>, <<"V2">>, <<"V1", "V2">>}
\* get_video_details answers: no item; an item without
\* "liveStreamingDetails"; an item with 100 viewers and no chat; an item with
\* 115 viewers and an "activeLiveChatId"
DetailsResponses ==
    {None, Item(FALSE, 0, FALSE), Item(TRUE, 100, FALSE), Item(TRUE, 115, TRUE)}
\* snippet.type of a chat item; "otherEvent" stands for every type that
\* _monitor_chat has no branch for
ChatTypes == {"textMessageEvent", "superChatEvent", "newSponsorEvent",
              "otherEvent"}
\* a page's "nextPageToken" when the page has none
Absent == "(absent)"
\* get_live_chat_messages answers: a page without items and without a token,
\* a page with one item and a token, a page with a text message and an item
\* of a type without a branch, with a token or without
ChatResponses ==
    {Page(<<>>, Absent)}
        \cup {Page(<<t>>, "t1") : t \in ChatTypes}
        \cup {Page(<<"textMessageEvent", "otherEvent">>, token) :
                 token \in {"t2", Absent}}
\* the token read without a default
NextPageToken_Raw(chat_data) == chat_data.nextPageToken
\* line 452: chat_data.get("nextPageToken", "")
NextPageToken(chat_data) ==
    IF chat_data.nextPageToken = Absent THEN "" ELSE chat_data.nextPageToken
\* config.poll_interval: one value under the broadcast check interval and the
\* interval itself
PollIntervals == {150, 300}

EVENT_LIVE_STARTED == "youtube.live.started"
EVENT_LIVE_UPDATE == "youtube.live.update"
EVENT_LIVE_VIEWERS_UPDATED == "youtube.live.viewers_updated"
EVENT_LIVE_ENDED == "youtube.live.ended"
EVENT_CHAT_MESSAGE == "youtube.chat.message"
EVENT_CHAT_SUPERCHAT == "youtube.chat.superchat"
EVENT_CHAT_NEW_SPONSOR == "youtube.chat.new_sponsor"

\* a dict: a function on its keys
EmptyDictOf == [k \in {} |-> None]
DictSet(d, key, val) ==
    [k \in (DOMAIN d) \cup {key} |-> IF k = key THEN val ELSE d[k]]
DictDel(d, key) == [k \in (DOMAIN d) \ {key} |-> d[k]]
OrderSet(order, key) ==
    IF \E i \in 1..Len(order) : order[i] = key THEN order ELSE Append(order, key)
OrderDel(order, key) == SelectSeq(order, LAMBDA k : k # key)

\* the history of a check, outside of checks
NoCheck == [path |-> "none", list_ok |-> FALSE, listed |-> {},
            streams |-> EmptyDictOf, tokens |-> EmptyDictOf, now |-> 0,
            since |-> 0]
NoneFetched == [v \in Videos |-> None]
NoVideo == ""
\* A feed notification as do_POST reads it: a body that is no XML, a feed
\* without an entry, an entry without a yt:videoId, an entry naming a video
BadXml == [kind |-> "bad_xml", video_id |-> NoVideo]
NoEntry == [kind |-> "no_entry", video_id |-> NoVideo]
NoVideoId == [kind |-> "no_video_id", video_id |-> NoVideo]
Named(video_id) == [kind |-> "named", video_id |-> video_id]
Notifications == {BadXml, NoEntry, NoVideoId} \cup {Named(v) : v \in Videos}
NoPost == [notification |-> NoEntry, details |-> None, calls |-> <<>>,
           events |-> <<>>, status |-> 0]
\* A GET request: its path without the query, and its query as the pairs
\* <<name, value>> of the raw query string, in order
Request(path, query) == [path |-> path, query |-> query]
NoGet == [request |-> Request("", <<>>), status |-> 0, body |-> ""]
\* monitor.py:61-65: the counters of stats as the constructor leaves them
NoStats == [events_forwarded |-> 0, api_calls |-> 0]

\* monitor.py:75-81: what pickle.dump writes for the state dictionary: its
\* three entries, a dictionary as its items (in insertion order where the
\* model keeps one)
Items(dict, order) == [i \in 1..Len(order) |-> <<order[i], dict[order[i]]>>]

Pickle(streams, order, tokens, counters) ==
    [active_streams |-> Items(streams, order),
     chat_page_tokens |-> {<<k, tokens[k]>> : k \in DOMAIN tokens},
     stats |-> counters]

\* monitor.py:93: what pickle.load rebuilds from the items
DictOf(items) ==
    [k \in {items[i][1] : i \in DOMAIN items} |->
        items[CHOOSE i \in DOMAIN items : items[i][1] = k][2]]

OrderOf(items) == [i \in DOMAIN items |-> items[i][1]]

DictOfPairs(pairs) ==
    [k \in {pair[1] : pair \in pairs} |->
        (CHOOSE pair \in pairs : pair[1] = k)[2]]

\* the state file on disk: missing, holding bytes pickle.load rejects (a
\* truncated write among them), holding a pickle of something that is no
\* dictionary, or holding what a _save_state wrote
NoSnapshot == Pickle(EmptyDictOf, <<>>, EmptyDictOf, NoStats)
FileMissing == [kind |-> "missing", data |-> NoSnapshot]
FileCorrupt == [kind |-> "corrupt", data |-> NoSnapshot]
FileOther == [kind |-> "other", data |-> NoSnapshot]
FileOf(snapshot) == [kind |-> "pickle", data |-> snapshot]
Undecodable == {"corrupt", "other"}

\* the memory a _save_state is given
Memory(streams, order, tokens, counters) ==
    [active_streams |-> streams, active_order |-> order,
     chat_page_tokens |-> tokens, stats |-> counters]
NoMemory == Memory(EmptyDictOf, <<>>, EmptyDictOf, NoStats)
NoSave == [outcome |-> "none", memory |-> NoMemory, completed |-> NoMemory]
NoLoad == [file |-> FileMissing, raised |-> FALSE, stored |-> <<>>,
           redis_ok |-> FALSE, at |-> 0, used_before |-> 0]

\* monitor.py:72-84 _save_state: open(state_file, "wb") truncates the file
\* and pickle.dump writes it; an exception of either is logged and swallowed
SaveOutcomes == {"ok", "open_fails", "write_fails"}
SaveState(file, memory, outcome) ==
    CASE outcome = "ok" ->
            FileOf(Pickle(memory.active_streams, memory.active_order,
                          memory.chat_page_tokens, memory.stats))
      [] outcome = "open_fails" -> file
      [] OTHER -> FileCorrupt

\* monitor.py:86-101 _load_state, applied to the memory the constructor has
\* just initialised (lines 53-65): a missing file returns at once, an
\* exception of open, pickle.load or state.get is logged and swallowed
\* a _load_state that leaves the counters of the constructor
Restored_MapsOnly(file) ==
    IF file.kind = "pickle"
    THEN Memory(DictOf(file.data.active_streams),
                OrderOf(file.data.active_streams),
                DictOfPairs(file.data.chat_page_tokens),
                NoStats)
    ELSE NoMemory

Restored(file) ==
    IF file.kind = "pickle"
    THEN Memory(DictOf(file.data.active_streams),
                OrderOf(file.data.active_streams),
                DictOfPairs(file.data.chat_page_tokens),
                file.data.stats)
    ELSE NoMemory

\* a _load_state without the except clause
LoadState_Raising(file) ==
    [raised |-> file.kind \in Undecodable, memory |-> Restored(file)]

LoadState(file) == [raised |-> FALSE, memory |-> Restored(file)]

\* a record restored whatever its date
LoadQuota_AnyDate(stored, now, redis_ok) ==
    IF redis_ok /\ stored # <<>>
    THEN <<stored[1], stored[2]>>
    ELSE <<0, DateOf(now)>>

\* api_client.py:39-61 _load_quota_from_redis, applied to the counter the
\* constructor has just initialised (lines 27-28): <<used, reset_date>>
LoadQuota(stored, now, redis_ok) ==
    IF redis_ok /\ stored # <<>> /\ stored[2] = DateOf(now)
    THEN <<stored[1], stored[2]>>
    ELSE <<0, DateOf(now)>>
NoChat == [video_id |-> NoVideo, chat_data |-> EmptyDict, events |-> <<>>]

Abs(n) == IF n < 0 THEN -n ELSE n

\* a change by a tenth or more
ChangeOverTenPercent_AtLeast(old_viewers, new_viewers) ==
    PctDen * Abs(new_viewers - old_viewers) >= PctNum * old_viewers

\* a change by more than a fifth
ChangeOverTenPercent_Fifth(old_viewers, new_viewers) ==
    5 * Abs(new_viewers - old_viewers) > old_viewers

\* lines 311-312, 393-395: abs(new - old) / old > 0.1, for old > 0
ChangeOverTenPercent(old_viewers, new_viewers) ==
    PctDen * Abs(new_viewers - old_viewers) > PctNum * old_viewers

\* lines 310-312: the light path's test
LightSignificant(old_viewers, new_viewers) ==
    /\ old_viewers > 0
    /\ ChangeOverTenPercent(old_viewers, new_viewers)

\* lines 391-395: the full path's test
FullSignificant(old_viewers, new_viewers) ==
    /\ old_viewers # 0
    /\ new_viewers # 0
    /\ \/ Abs(new_viewers - old_viewers) > ViewerDiffThreshold
       \/ (old_viewers > 0 /\ ChangeOverTenPercent(old_viewers, new_viewers))

\* .get("liveStreamingDetails", {}).get("concurrentViewers", 0)
ViewersOf(details) == IF details.lsd THEN details.viewers ELSE 0

\* the event payloads, as far as the model keeps them
StartedData(video_id, details) ==
    [video_id |-> video_id, concurrent_viewers |-> details.viewers]
LightUpdateData(video_id, new_viewers) ==
    [video_id |-> video_id, concurrent_viewers |-> new_viewers]
FullUpdateData(video_id, new_viewers, old_viewers) ==
    [video_id |-> video_id, concurrent_viewers |-> new_viewers,
     previous_viewers |-> old_viewers]
EndedData(video_id, now) == [video_id |-> video_id, ended_at |-> now]
ChatData(video_id) == [video_id |-> video_id]

\* the events of the items of a page, last item first
RECURSIVE ChatEvents_Reversed(_, _)
ChatEvents_Reversed(video_id, items) ==
    IF items = <<>> THEN <<>>
    ELSE LET message_type == Head(items)
             rest == ChatEvents_Reversed(video_id, Tail(items))
         IN  CASE message_type = "textMessageEvent" ->
                    rest \o <<<<EVENT_CHAT_MESSAGE, ChatData(video_id)>>>>
               [] message_type = "superChatEvent" ->
                    rest \o <<<<EVENT_CHAT_SUPERCHAT, ChatData(video_id)>>>>
               [] message_type = "newSponsorEvent" ->
                    rest \o <<<<EVENT_CHAT_NEW_SPONSOR, ChatData(video_id)>>>>
               [] OTHER -> rest

\* _monitor_chat, lines 462-499: the events of the items of a page, in order
RECURSIVE ChatEvents(_, _)
ChatEvents(video_id, items) ==
    IF items = <<>> THEN <<>>
    ELSE LET message_type == Head(items)
             rest == ChatEvents(video_id, Tail(items))
         IN  CASE message_type = "textMessageEvent" ->
                    <<<<EVENT_CHAT_MESSAGE, ChatData(video_id)>>>> \o rest
               [] message_type = "superChatEvent" ->
                    <<<<EVENT_CHAT_SUPERCHAT, ChatData(video_id)>>>> \o rest
               [] message_type = "newSponsorEvent" ->
                    <<<<EVENT_CHAT_NEW_SPONSOR, ChatData(video_id)>>>> \o rest
               [] OTHER -> rest

\* forward_event called for each of `events` in turn, from time `now`
RECURSIVE ForwardAll(_, _, _, _)
ForwardAll(ring, now, events, outcomes) ==
    IF events = <<>> THEN [failed_events |-> ring, now |-> now]
    ELSE LET r == Forwarded(ring, now, Head(events)[1], Head(events)[2],
                            Head(outcomes))
         IN  ForwardAll(r.failed_events, r.now, Tail(events), Tail(outcomes))

\* the lifecycle history of an id after an ended event: "ended" is the one
\* ended event since the last started one, "ended_again" a further one,
\* "ended_unstarted" an ended event of an id that never had a started one
AfterEnded(last) ==
    CASE last = "started" -> "ended"
      [] last \in {"ended", "ended_again"} -> "ended_again"
      [] OTHER -> "ended_unstarted"

LastWasEnded == {"ended", "ended_again", "ended_unstarted"}

\* the history of the events a step hands to the forwarder
EventHist(events) ==
    /\ check_events' = check_events \o
          [i \in 1..Len(events) |-> <<events[i][1], events[i][2].video_id>>]
    /\ last_lifecycle' =
          [v \in Videos |->
             IF \E i \in 1..Len(events) :
                   events[i][1] = EVENT_LIVE_STARTED /\ events[i][2].video_id = v
             THEN "started"
             ELSE IF \E i \in 1..Len(events) :
                   events[i][1] = EVENT_LIVE_ENDED /\ events[i][2].video_id = v
             THEN AfterEnded(last_lifecycle[v])
             ELSE last_lifecycle[v]]
    /\ ended_twice' = (ended_twice \/
          \E i \in 1..Len(events) :
             /\ events[i][1] = EVENT_LIVE_ENDED
             /\ last_lifecycle[events[i][2].video_id] \in LastWasEnded)

\* The receiver's answer to a forward_event of the polling task: the first
\* POST succeeds, or none of the four does.
ReceiverOutcome == IF receiver_up THEN 1 ELSE 0

\* a step of the polling task that hands `events` to the forwarder at time
\* `now`; `log` says whether the step is one of the reference scenario
HandAfter(api_calls_made, events, now, log) ==
    /\ stats' = [events_forwarded |->
                    stats.events_forwarded
                        + (IF receiver_up THEN Len(events) ELSE 0),
                 api_calls |-> stats.api_calls + api_calls_made]
    /\ LET r == ForwardAll(failed_events, now, events,
                           [i \in 1..Len(events) |-> ReceiverOutcome])
       IN  /\ failed_events' = r.failed_events
           /\ clock' = r.now
    /\ EventHist(events)
    /\ scen_log' = IF log THEN scen_log \o events ELSE scen_log

\* a step that makes one gateway call, counts it in stats (lines 295, 344,
\* 446) and hands `events`
Hand(events, now, log) == HandAfter(1, events, now, log)

(***************************************************************************)
(* Initial state: the objects as their constructors leave them             *)
(***************************************************************************)
InitCommon ==
    /\ clock = 0
    /\ failed_events = <<>>
    /\ sweep_pc = "idle"
    /\ failed_copy = <<>>
    /\ handed = 0
    /\ delivered = {}
    /\ dropped_overflow = {}
    /\ dropped_stale = {}
    /\ first_enqueue = <<>>
    /\ stale_post = FALSE
    /\ last_fwd = [outcome |-> 1, ret |-> TRUE, posts |-> 0, waits |-> <<>>,
                   event_type |-> "", event_data |-> 0]
    /\ sweep0 = [len |-> 0, clock |-> 0]
    /\ calls = 0
    /\ ticks = 0
    /\ quota_exceeded = FALSE
    /\ quota_used_today = 0
    /\ quota_reset_date = DateOf(0)
    /\ api_calls = <<>>
    /\ redis_quota = <<>>
    /\ api_n = 0
    /\ upstream_requests = 0
    /\ call_log = <<>>
    /\ last_api = [operation |-> "", result |-> <<>>, gated |-> FALSE,
                   response |-> Transport,
                   performed |-> FALSE, recorded |-> FALSE, ok |-> FALSE,
                   outcome |-> "none", at |-> 0, used_before |-> 0,
                   date_before |-> DateOf(0), window_before |-> <<>>,
                   called_at |-> 0]
    /\ active_streams = EmptyDictOf
    /\ active_order = <<>>
    /\ chat_page_tokens = EmptyDictOf
    /\ last_broadcast_check = 0
    /\ retry_counter = 0
    /\ poll_interval \in PollIntervals
    /\ running = TRUE
    /\ stats = NoStats
    /\ disable_idle_polling \in BOOLEAN
    /\ pc = "loop"
    /\ todo = <<>>
    /\ current_stream_ids = {}
    /\ ended_streams = {}
    /\ chat_video = NoVideo
    /\ cycles = 0
    /\ check0 = NoCheck
    /\ check_events = <<>>
    /\ fetched = NoneFetched
    /\ last_lifecycle = [v \in Videos |-> "none"]
    /\ ended_twice = FALSE
    /\ scen_log = <<>>
    /\ last_chat = NoChat
    /\ check_calls = <<>>
    /\ posts = 0
    /\ last_post = NoPost
    /\ gets = 0
    /\ last_get = NoGet
    /\ state_file = FileMissing
    /\ last_save = NoSave
    /\ loads = 0
    /\ last_load = NoLoad
    /\ upstream = "ok"
    /\ receiver_up = TRUE
    /\ last_requests = <<>>
    /\ in_sweep = {}
    /\ rec_pc = [task \in ApiTasks |-> "idle"]
    /\ rec_local = [task \in ApiTasks |-> NoRecordLocals]
    /\ race_log = <<>>

\* no webhook secret configured
Init ==
    /\ InitCommon
    /\ webhook_secret = NoSecret

\* a configuration under which every check takes the full path
InitPlain ==
    /\ Init
    /\ poll_interval = BroadcastCheckInterval
    /\ ~disable_idle_polling

(***************************************************************************)
(* SpecFwd: the forwarder used by one task (the polling task): top-level   *)
(* forward_event calls and retry sweeps, one after the other, with time    *)
(* passing in between.                                                     *)
(***************************************************************************)
FwdCall ==
    /\ sweep_pc = "idle"
    /\ calls < MaxCalls
    /\ \E outcome \in AttemptOutcomes :
          LET r == Forwarded(failed_events, clock, HarnessEventType,
                             handed + 1, outcome)
          IN  /\ failed_events' = r.failed_events
              /\ clock' = r.now
              /\ ForwardEventHist(r, HarnessEventType, handed + 1, outcome)
    /\ UNCHANGED <<ticks, sweep_pc, failed_copy, dropped_stale, stale_post,
                   sweep0, apiVars, apiHist, monVars, monHist>>

\* a sweep is started only when the behaviour's budget lets it run to its end
FwdSweepCopy ==
    /\ calls + Len(failed_events) <= MaxCalls
    /\ SweepCopy
    /\ SweepCopyHist
    /\ UNCHANGED <<ticks, apiVars, apiHist, monVars, monHist>>

FwdSweepClear ==
    /\ SweepClear
    /\ UNCHANGED <<ticks, fwdHist, apiVars, apiHist, monVars, monHist>>

FwdSweepEntry ==
    /\ \E outcome \in AttemptOutcomes :
          SweepEntry(outcome) /\ SweepEntryHist(outcome)
    /\ UNCHANGED <<ticks, apiVars, apiHist, monVars, monHist>>

FwdSweepReturn ==
    /\ SweepReturn
    /\ UNCHANGED <<ticks, fwdHist, apiVars, apiHist, monVars, monHist>>

Tick ==
    /\ sweep_pc = "idle"
    /\ ticks < MaxTicks
    /\ ticks' = ticks + 1
    /\ \E d \in TickSteps : clock' = clock + d
    /\ UNCHANGED <<fwdVars, fwdHist, apiVars, apiHist, monVars, monHist>>

NextFwd ==
    \/ FwdCall
    \/ FwdSweepCopy
    \/ FwdSweepClear
    \/ FwdSweepEntry
    \/ FwdSweepReturn
    \/ Tick

SpecFwd == InitPlain /\ [][NextFwd]_vars

(***************************************************************************)
(* SpecConc: the forwarder shared by the polling task, which runs the      *)
(* retry sweep (monitor.py:262), and the callback-server task, whose       *)
(* handlers call forward_event (server.py:207) at any moment of a sweep.   *)
(***************************************************************************)
CallbackForwardEvent ==
    /\ calls < MaxCalls
    /\ \E outcome \in AttemptOutcomes :
          LET r == Forwarded(failed_events, clock, HarnessEventType,
                             handed + 1, outcome)
          IN  /\ failed_events' = r.failed_events
              /\ clock' = r.now
              /\ ForwardEventHist(r, HarnessEventType, handed + 1, outcome)
    /\ UNCHANGED <<ticks, sweep_pc, failed_copy, dropped_stale, stale_post,
                   sweep0, apiVars, apiHist, monVars, monHist>>

NextConc ==
    \/ CallbackForwardEvent
    \/ FwdSweepCopy
    \/ FwdSweepClear
    \/ FwdSweepEntry
    \/ FwdSweepReturn
    \/ Tick

SpecConc == InitPlain /\ [][NextConc]_vars

(***************************************************************************)
(* SpecApi: the API client on its own: the three gateway operations called *)
(* in any order, the upstream answering in any way, time passing between   *)
(* the calls.                                                              *)
(***************************************************************************)
ApiTickSteps == {61, 86400}
\* payloads of a successful answer
SomeItems == <<"V1">>
SomeDetails == Item(TRUE, 100, TRUE)
SomeChatPage == Page(<<"textMessageEvent">>, "t1")

\* the upstream's answer to a request and whether Redis takes the write of
\* _record_api_call: every answer with Redis up, and an answer with data and a
\* quota error with Redis down
ApiInputs ==
    {<<response, TRUE>> : response \in ApiResponses}
        \cup {<<Data, FALSE>>, <<ErrorBody(403, <<"dailyLimitExceeded">>), FALSE>>}

ApiOperationOn(operation, payload, inputs) ==
    /\ \E input \in inputs :
          LET response == input[1]
              redis_ok == input[2]
              g == GatewayCall(operation, ResponseOutcome(response), redis_ok)
          IN  /\ ApiApply(g, operation,
                          IF g.ok THEN payload ELSE EmptyResult(operation),
                          response)
              /\ clock' = g.now
    /\ UNCHANGED <<ticks, fwdVars, fwdHist, monVars, monHist>>

ApiOperation(operation, payload) ==
    /\ api_n < MaxApiCalls
    /\ ApiOperationOn(operation, payload, ApiInputs)

ApiGetLiveBroadcasts == ApiOperation("search", SomeItems)

ApiGetVideoDetails == ApiOperation("videos", SomeDetails)

ApiGetLiveChatMessages == ApiOperation("liveChatMessages", SomeChatPage)

ApiTick ==
    /\ ticks < MaxTicks
    /\ ticks' = ticks + 1
    /\ \E d \in ApiTickSteps : clock' = clock + d
    /\ UNCHANGED <<fwdVars, fwdHist, apiVars, apiHist, monVars, monHist>>

\* the process is started again: a new client is constructed
\* (api_client.py:18-37), which loads the quota record if Redis answers
ApiRestart ==
    /\ loads < MaxLoads
    /\ \E redis_ok \in BOOLEAN :
          LET quota == LoadQuota(redis_quota, clock, redis_ok)
          IN  /\ quota_used_today' = quota[1]
              /\ quota_reset_date' = quota[2]
              /\ last_load' = [NoLoad EXCEPT !.stored = redis_quota,
                                             !.redis_ok = redis_ok,
                                             !.at = clock,
                                             !.used_before = quota_used_today]
    /\ loads' = loads + 1
    /\ api_calls' = <<>>
    /\ quota_exceeded' = FALSE
    /\ UNCHANGED <<clock, ticks, fwdVars, fwdHist, redis_quota, apiHist,
                   monVars, checkHist, sideVars, state_file, last_save>>

NextApi ==
    \/ ApiGetLiveBroadcasts
    \/ ApiGetVideoDetails
    \/ ApiGetLiveChatMessages
    \/ ApiTick

SpecApi == InitPlain /\ [][NextApi]_vars

(***************************************************************************)
(* SpecRate: the rate limiter under a single caller: get_video_details     *)
(* called in bursts, the upstream answering with data or not at all, time  *)
(* passing only in the limiter's sleeps and between the calls.             *)
(***************************************************************************)
RateTickSteps == {10, 61}

\* get_video_details, lines 215-235, answered with data: _check_rate_limit,
\* session.get, _record_api_call
RateCall ==
    /\ Len(call_log) < MaxBurst
    /\ ~quota_exceeded
    /\ LET rl == CheckRateLimitAt(api_calls, clock, BurstCapacity)
           rec == RecordApiCall(rl.api_calls, quota_used_today,
                                quota_reset_date, redis_quota, rl.now,
                                "videos", TRUE)
       IN  /\ clock' = rl.now
           /\ api_calls' = rec.api_calls
           /\ quota_used_today' = rec.quota_used_today
           /\ quota_reset_date' = rec.quota_reset_date
           /\ redis_quota' = rec.redis_quota
           /\ call_log' = Append(call_log, rl.now)
    /\ UNCHANGED <<quota_exceeded, api_n, upstream_requests, last_api, ticks,
                   fwdVars, fwdHist, monVars, monHist>>

\* get_video_details, lines 215-235, the request failing at transport level:
\* _check_rate_limit, session.get raising; the call leaves a trace only when
\* the limiter evicted or slept
RateCallFailed ==
    /\ Len(call_log) < MaxBurst
    /\ ~quota_exceeded
    /\ LET rl == CheckRateLimitAt(api_calls, clock, BurstCapacity)
       IN  /\ clock' = rl.now
           /\ api_calls' = rl.api_calls
           /\ rl.api_calls # api_calls \/ rl.now # clock
    /\ UNCHANGED <<quota_exceeded, quota_used_today, quota_reset_date,
                   redis_quota, apiHist, ticks, fwdVars, fwdHist, monVars,
                   monHist>>

RateTick ==
    /\ ticks < MaxTicks
    /\ ticks' = ticks + 1
    /\ \E d \in RateTickSteps : clock' = clock + d
    /\ UNCHANGED <<fwdVars, fwdHist, apiVars, apiHist, monVars, monHist>>

NextRate ==
    \/ RateCall
    \/ RateCallFailed
    \/ RateTick

SpecRate == InitPlain /\ [][NextRate]_vars

\* C15: the N-th recorded call, N over the limiter's capacity, is never
\* performed earlier than a window length after the call recorded capacity
\* places before it: no window of RateWindow seconds holds more recorded calls
\* than the capacity.
C15_RateLimitHolds ==
    \A n \in 1..Len(call_log) :
       n > BurstCapacity =>
          call_log[n] >= call_log[n - BurstCapacity] + RateWindow

\* C10: while quota_exceeded is set, a gateway operation returns its empty
\* result ([] / None / {}) without sending a request, without touching the
\* rate window and without changing quota_used_today.
C10_ExceededIsNoOp ==
    [][(quota_exceeded /\ api_n' # api_n) =>
          /\ last_api'.result = EmptyResult(last_api'.operation)
          /\ upstream_requests' = upstream_requests
          /\ api_calls' = api_calls
          /\ quota_used_today' = quota_used_today
          /\ clock' = clock
    ]_vars

\* C10 witness: an operation was invoked with the flag set, after calls that
\* were recorded
C10_Witness ==
    /\ last_api.gated
    /\ quota_exceeded
    /\ upstream_requests < api_n
    /\ Len(api_calls) >= 2

\* C11: a call recorded on a date other than quota_reset_date leaves
\* quota_used_today at that operation's cost and quota_reset_date at the new
\* date, whatever the total was; a call recorded on quota_reset_date adds its
\* cost to the total.
C11_DateRolloverReset ==
    (api_n > 0 /\ last_api.recorded) =>
        /\ quota_reset_date = DateOf(last_api.at)
        /\ quota_used_today =
              IF DateOf(last_api.at) # last_api.date_before
              THEN QuotaCost(last_api.operation)
              ELSE last_api.used_before + QuotaCost(last_api.operation)

\* C11 witness: a call was recorded on a new date with a total carried from
\* the day before
C11_Witness ==
    /\ last_api.recorded
    /\ DateOf(last_api.at) # last_api.date_before
    /\ last_api.used_before > 0
    /\ quota_used_today = QuotaCost(last_api.operation)

\* C12: the exceeded state ends at the date rollover: a gateway operation
\* invoked with the flag set on a date after the one the flag was set on (the
\* flag is set by a recorded call, so that date is quota_reset_date) performs
\* the upstream request.
C12_ExceededEndsAtRollover ==
    (/\ api_n > 0
     /\ last_api.gated
     /\ DateOf(last_api.called_at) # last_api.date_before) => last_api.performed

\* C13: an error body with code 403 and a reason quotaExceeded or
\* dailyLimitExceeded sets quota_exceeded and the operation returns its empty
\* result; any other error body gives the empty result and leaves
\* quota_exceeded as it was.
C13_QuotaErrorSetsFlag ==
    (api_n > 0 /\ last_api.performed /\ last_api.response.kind = "error") =>
        /\ last_api.result = EmptyResult(last_api.operation)
        /\ IF /\ last_api.response.code = 403
              /\ \E i \in 1..Len(last_api.response.reasons) :
                    last_api.response.reasons[i] \in QuotaReasons
           THEN quota_exceeded
           ELSE quota_exceeded = last_api.gated

\* C13 witness: a quota error body has set the flag
C13_Witness ==
    /\ last_api.performed
    /\ last_api.response = ErrorBody(403, <<"dailyLimitExceeded">>)
    /\ ~last_api.gated
    /\ quota_exceeded

\* C14: when the upstream request fails at transport level, the operation
\* returns to its caller with its empty result ([] / None / {}); the call is
\* not recorded and quota_exceeded stays as it was.
C14_TransportFailureEmpty ==
    (api_n > 0 /\ last_api.performed /\ last_api.response.kind = "transport") =>
        /\ last_api.result = EmptyResult(last_api.operation)
        /\ ~last_api.ok
        /\ quota_exceeded = last_api.gated

\* C14 witness: every request of the behaviour was sent and none recorded,
\* the last one a chat request that failed at transport level
C14_Witness ==
    /\ api_n = MaxApiCalls
    /\ upstream_requests = MaxApiCalls
    /\ api_calls = <<>>
    /\ last_api.response.kind = "transport"
    /\ last_api.operation = "liveChatMessages"
    /\ last_api.result = EmptyDict

(***************************************************************************)
(* Spec: the polling task (_polling_loop), step by step.  A step is the    *)
(* code between two gateway calls, with the forward_event calls it makes.  *)
(* The upstream and the receiver are in one condition during an iteration  *)
(* and change it between iterations.                                       *)
(***************************************************************************)
loopCore == <<ticks, fwdHist, apiHist, poll_interval, disable_idle_polling,
              running, sideVars>>
loopFrame == <<loopCore, fileVars>>

NoCheckHist == UNCHANGED <<check0, check_events, fetched, last_lifecycle,
                           ended_twice, scen_log, last_chat, check_calls>>

\* lines 241-246 and 280-340: the head of an iteration and of the check it
\* runs, the list call answering with one of `lists`
LoopCheckStartOn(conditions, lists) ==
    /\ pc = "loop"
    /\ running
    /\ \E u \in conditions, up \in BOOLEAN :
          /\ upstream' = u
          /\ receiver_up' = up
          /\ IF disable_idle_polling /\ DOMAIN active_streams = {}
             THEN /\ pc' = "post_check"
                  /\ check0' = [NoCheck EXCEPT !.path = "skip", !.now = clock,
                                               !.since = clock - last_broadcast_check]
                  /\ UNCHANGED <<clock, todo, last_broadcast_check, apiVars,
                                 check_calls, stats>>
             ELSE IF /\ DOMAIN active_streams # {}
                     /\ clock - last_broadcast_check < BroadcastCheckInterval
             THEN /\ pc' = "light"
                  /\ todo' = active_order
                  /\ check0' = [path |-> "light", list_ok |-> FALSE,
                                listed |-> {}, streams |-> active_streams,
                                tokens |-> chat_page_tokens, now |-> clock,
                                since |-> clock - last_broadcast_check]
                  /\ UNCHANGED <<clock, last_broadcast_check, apiVars,
                                 check_calls, stats>>
             ELSE \E items \in lists :
                     LET g == GatewayCall("search", u, TRUE)
                         broadcasts == IF g.ok THEN items ELSE <<>>
                     IN  /\ last_broadcast_check' = clock
                         /\ ApiState(g)
                         /\ clock' = g.now
                         /\ todo' = broadcasts
                         /\ pc' = "full"
                         /\ check0' =
                               [path |-> "full", list_ok |-> g.ok,
                                listed |-> {broadcasts[i] :
                                              i \in 1..Len(broadcasts)},
                                streams |-> active_streams,
                                tokens |-> chat_page_tokens, now |-> clock,
                                since |-> clock - last_broadcast_check]
                         /\ check_calls' =
                               Append(check_calls, <<"search", NoVideo>>)
                         /\ stats' = [stats EXCEPT !.api_calls = @ + 1]
    /\ UNCHANGED <<failed_events, sweep_pc, failed_copy, active_streams,
                   active_order, chat_page_tokens, retry_counter,
                   current_stream_ids, ended_streams, chat_video, cycles,
                   check_events, fetched, last_lifecycle, ended_twice, scen_log,
                   last_chat, loopFrame>>

LoopCheckStart ==
    /\ cycles < MaxCycles
    /\ LoopCheckStartOn(UpstreamOutcomes, ListResponses)

\* lines 293-327: one turn of the light path's loop, the details call
\* answering with one of `payloads`
LightItemOn(payloads) ==
    /\ pc = "light"
    /\ todo # <<>>
    /\ \E payload \in payloads :
          LET video_id == Head(todo)
              g == GatewayCall("videos", upstream, TRUE)
              details == IF g.ok THEN payload ELSE None
              old_details == active_streams[video_id]
              next_pc == IF Tail(todo) = <<>> THEN "post_check" ELSE "light"
          IN  /\ ApiState(g)
              /\ fetched' = [fetched EXCEPT ![video_id] = details]
              /\ check_calls' = Append(check_calls, <<"videos", video_id>>)
              /\ IF details.present /\ details.lsd
                 THEN IF ~old_details.lsd
                      THEN \* line 299: KeyError
                           /\ pc' = "except"
                           /\ Hand(<<>>, g.now, FALSE)
                           /\ UNCHANGED active_streams
                      ELSE /\ pc' = next_pc
                           /\ active_streams' =
                                 DictSet(active_streams, video_id, details)
                           /\ IF LightSignificant(old_details.viewers,
                                                  details.viewers)
                              THEN Hand(<<<<EVENT_LIVE_VIEWERS_UPDATED,
                                            LightUpdateData(video_id,
                                                            details.viewers)>>>>,
                                        g.now, FALSE)
                              ELSE Hand(<<>>, g.now, FALSE)
                 ELSE /\ pc' = next_pc
                      /\ Hand(<<>>, g.now, FALSE)
                      /\ UNCHANGED active_streams
    /\ todo' = Tail(todo)
    /\ UNCHANGED <<sweep_pc, failed_copy, active_order, chat_page_tokens,
                   last_broadcast_check, retry_counter, current_stream_ids,
                   ended_streams, chat_video, cycles, check0, last_chat,
                   upstream, receiver_up, loopFrame>>

\* lines 338-417: one turn of the full path's loop, up to its _monitor_chat
\* call, the details call answering with one of `payloads`
FullItemOn(payloads, log) ==
    /\ pc = "full"
    /\ todo # <<>>
    /\ \E payload \in payloads :
          LET video_id == Head(todo)
              g == GatewayCall("videos", upstream, TRUE)
              details == IF g.ok THEN payload ELSE None
          IN  /\ ApiState(g)
              /\ fetched' = [fetched EXCEPT ![video_id] = details]
              /\ check_calls' = Append(check_calls, <<"videos", video_id>>)
              /\ current_stream_ids' = current_stream_ids \cup {video_id}
              /\ IF ~details.present
                 THEN \* lines 346-347: continue
                      /\ pc' = "full"
                      /\ Hand(<<>>, g.now, log)
                      /\ UNCHANGED <<active_streams, active_order, chat_video>>
                 ELSE IF video_id \notin DOMAIN active_streams
                 THEN /\ active_streams' =
                            DictSet(active_streams, video_id, details)
                      /\ active_order' = OrderSet(active_order, video_id)
                      /\ IF ~details.lsd
                         THEN \* line 360: KeyError
                              /\ pc' = "except"
                              /\ Hand(<<>>, g.now, log)
                              /\ UNCHANGED chat_video
                         ELSE /\ Hand(<<<<EVENT_LIVE_STARTED,
                                         StartedData(video_id, details)>>>>,
                                      g.now, log)
                              /\ pc' = IF details.chat THEN "chat" ELSE "full"
                              /\ chat_video' =
                                    IF details.chat THEN video_id ELSE chat_video
                 ELSE LET old_viewers == ViewersOf(active_streams[video_id])
                          new_viewers == ViewersOf(details)
                      IN  /\ IF FullSignificant(old_viewers, new_viewers)
                             THEN Hand(<<<<EVENT_LIVE_VIEWERS_UPDATED,
                                           FullUpdateData(video_id, new_viewers,
                                                          old_viewers)>>>>,
                                       g.now, log)
                             ELSE Hand(<<>>, g.now, log)
                          /\ active_streams' =
                                DictSet(active_streams, video_id, details)
                          /\ active_order' = active_order
                          /\ IF ~details.lsd
                             THEN \* line 414: KeyError
                                  /\ pc' = "except"
                                  /\ UNCHANGED chat_video
                             ELSE /\ pc' = IF details.chat THEN "chat" ELSE "full"
                                  /\ chat_video' =
                                        IF details.chat THEN video_id
                                        ELSE chat_video
    /\ todo' = Tail(todo)
    /\ UNCHANGED <<sweep_pc, failed_copy, chat_page_tokens,
                   last_broadcast_check, retry_counter, ended_streams, cycles,
                   check0, last_chat, upstream, receiver_up, loopFrame>>

FullItem == FullItemOn(DetailsResponses, FALSE)

LightItem == LightItemOn(DetailsResponses)

\* any answer taken for a page
HasChatData_Always(chat_data) == TRUE

\* lines 448-449: `if not chat_data: return`, of the dict the gateway
\* returns, which is {} when the call failed or got nothing
HasChatData(chat_data) == chat_data.present

\* _monitor_chat(video_id, live_chat_id)
MonitorChatWith(responses, log) ==
    /\ pc = "chat"
    /\ \E payload \in responses :
          LET g == GatewayCall("liveChatMessages", upstream, TRUE)
              chat_data == IF g.ok THEN payload ELSE EmptyDict
          IN  /\ ApiState(g)
              /\ check_calls' =
                    Append(check_calls, <<"liveChatMessages", chat_video>>)
              /\ IF ~HasChatData(chat_data)
                 THEN /\ Hand(<<>>, g.now, log)
                      /\ UNCHANGED chat_page_tokens
                      /\ last_chat' = [video_id |-> chat_video,
                                       chat_data |-> chat_data,
                                       events |-> <<>>]
                 ELSE /\ chat_page_tokens' =
                            DictSet(chat_page_tokens, chat_video,
                                    NextPageToken(chat_data))
                      /\ Hand(ChatEvents(chat_video, chat_data.items), g.now,
                              log)
                      /\ last_chat' = [video_id |-> chat_video,
                                       chat_data |-> chat_data,
                                       events |-> ChatEvents(chat_video,
                                                             chat_data.items)]
    /\ pc' = "full"
    /\ chat_video' = NoVideo
    /\ UNCHANGED <<sweep_pc, failed_copy, active_streams, active_order,
                   last_broadcast_check, retry_counter, todo, current_stream_ids,
                   ended_streams, cycles, check0, fetched, upstream,
                   receiver_up, loopFrame>>

MonitorChatOn(log) == MonitorChatWith(ChatResponses, log)

MonitorChat == MonitorChatOn(FALSE)

\* line 420: ended_streams = set(self.active_streams.keys()) - current_stream_ids
FullCollectEnded ==
    /\ pc = "full"
    /\ todo = <<>>
    /\ ended_streams' = (DOMAIN active_streams) \ current_stream_ids
    /\ pc' = IF (DOMAIN active_streams) \ current_stream_ids = {}
             THEN "post_check" ELSE "ended"
    /\ NoCheckHist
    /\ UNCHANGED <<clock, fwdVars, apiVars, stats, active_streams, active_order,
                   chat_page_tokens, last_broadcast_check, retry_counter, todo,
                   current_stream_ids, chat_video, cycles, upstream,
                   receiver_up, loopFrame>>

\* lines 421-438: one turn of the loop over ended_streams, a set
EndedItemOn(log) ==
    /\ pc = "ended"
    /\ \E video_id \in ended_streams :
          /\ HandAfter(0, <<<<EVENT_LIVE_ENDED, EndedData(video_id, clock)>>>>,
                       clock, log)
          /\ active_streams' = DictDel(active_streams, video_id)
          /\ active_order' = OrderDel(active_order, video_id)
          /\ chat_page_tokens' = DictDel(chat_page_tokens, video_id)
          /\ ended_streams' = ended_streams \ {video_id}
          /\ pc' = IF ended_streams \ {video_id} = {} THEN "post_check"
                   ELSE "ended"
    /\ UNCHANGED <<sweep_pc, failed_copy, apiVars, last_broadcast_check,
                   retry_counter, todo, current_stream_ids, chat_video, cycles,
                   check0, fetched, last_chat, check_calls, upstream,
                   receiver_up, loopFrame>>

EndedItem == EndedItemOn(FALSE)

\* lines 261-262: every tenth iteration, retry_failed_events()
PostCheck ==
    /\ pc = "post_check"
    /\ IF retry_counter % SweepEvery = 0
       THEN /\ SweepCopy
            /\ pc' = "sweep"
       ELSE /\ pc' = "sleep"
            /\ UNCHANGED <<clock, fwdVars>>
    /\ NoCheckHist
    /\ UNCHANGED <<apiVars, stats, active_streams, active_order, chat_page_tokens,
                   last_broadcast_check, retry_counter, todo,
                   current_stream_ids, ended_streams, chat_video, cycles,
                   upstream, receiver_up, loopFrame>>

LoopSweepClear ==
    /\ pc = "sweep"
    /\ SweepClear
    /\ UNCHANGED <<apiVars, monVars, monHist, loopFrame>>

LoopSweepEntry ==
    /\ pc = "sweep"
    /\ SweepEntry(ReceiverOutcome)
    /\ UNCHANGED <<apiVars, monVars, monHist, loopFrame>>

LoopSweepReturn ==
    /\ pc = "sweep"
    /\ SweepReturn
    /\ pc' = "sleep"
    /\ NoCheckHist
    /\ UNCHANGED <<apiVars, stats, active_streams, active_order, chat_page_tokens,
                   last_broadcast_check, retry_counter, todo,
                   current_stream_ids, ended_streams, chat_video, cycles,
                   upstream, receiver_up, loopFrame>>

\* the locals of the finished iteration go, and the history of its check
EndIteration ==
    /\ todo' = <<>>
    /\ current_stream_ids' = {}
    /\ ended_streams' = {}
    /\ chat_video' = NoVideo
    /\ check0' = NoCheck
    /\ check_events' = <<>>
    /\ fetched' = NoneFetched
    /\ last_chat' = NoChat
    /\ check_calls' = <<>>
    /\ cycles' = cycles + 1
    /\ UNCHANGED <<last_lifecycle, ended_twice, scen_log, upstream, receiver_up>>

\* lines 268-269: retry_counter += 1; time.sleep(self.config.poll_interval)
\* with lines 264-266 before them: every fifth iteration calls _save_state,
\* which ends in one of `outcomes`.  The specifications that never construct
\* the monitor again leave the file out (outcomes = {}): nothing they do reads
\* it.
SleepOn(outcomes) ==
    /\ pc = "sleep"
    /\ IF outcomes # {} /\ retry_counter % SaveEvery = 0
       THEN \E outcome \in outcomes :
               LET memory == Memory(active_streams, active_order,
                                    chat_page_tokens, stats)
               IN  /\ state_file' = SaveState(state_file, memory, outcome)
                   /\ last_save' = [outcome |-> outcome, memory |-> memory,
                                    completed |-> IF outcome = "ok"
                                                  THEN memory
                                                  ELSE last_save.completed]
                   /\ UNCHANGED <<loads, last_load>>
       ELSE UNCHANGED fileVars
    /\ retry_counter' = retry_counter + 1
    /\ clock' = clock + poll_interval
    /\ pc' = "loop"
    /\ EndIteration
    /\ UNCHANGED <<fwdVars, apiVars, stats, active_streams, active_order,
                   chat_page_tokens, last_broadcast_check, loopCore>>

Sleep == SleepOn({})

\* the handler leaving the loop
Except_Break ==
    /\ pc = "except"
    /\ pc' = "done"
    /\ EndIteration
    /\ UNCHANGED <<clock, fwdVars, apiVars, stats, active_streams, active_order,
                   chat_page_tokens, last_broadcast_check, retry_counter,
                   loopFrame>>

\* lines 274-276: except Exception: log; time.sleep(self.config.poll_interval)
Except ==
    /\ pc = "except"
    /\ clock' = clock + poll_interval
    /\ pc' = "loop"
    /\ EndIteration
    /\ UNCHANGED <<fwdVars, apiVars, stats, active_streams, active_order,
                   chat_page_tokens, last_broadcast_check, retry_counter,
                   loopFrame>>

\* The polling task with idle polling on, a poll interval of half the
\* broadcast check interval and an upstream that answers: light and full
\* checks alternate, for MaxSmartCycles iterations.
InitSmart ==
    /\ Init
    /\ poll_interval = 150
    /\ ~disable_idle_polling

\* the list call names one broadcast
SmartLists == {<<"V1">>, <<"V2">>}

SmartCheckStart ==
    /\ cycles < MaxSmartCycles
    /\ LoopCheckStartOn({"ok"}, SmartLists)

\* stop(), from the signal handler or another thread. running is read only
\* at the head of the loop, so a stop() at any point of an iteration shows as
\* one during the iteration's sleep.
Stop ==
    /\ pc \in {"sleep", "except"}
    /\ running
    /\ running' = FALSE
    /\ UNCHANGED <<clock, ticks, fwdVars, fwdHist, apiVars, apiHist,
                   active_streams, active_order, chat_page_tokens,
                   last_broadcast_check, retry_counter, poll_interval,
                   disable_idle_polling, stats, pc, todo, current_stream_ids,
                   ended_streams, chat_video, upstream, receiver_up, monHist>>

\* line 239: while self.running, found false
LoopExit ==
    /\ pc = "loop"
    /\ ~running
    /\ pc' = "done"
    /\ UNCHANGED <<clock, ticks, fwdVars, fwdHist, apiVars, apiHist,
                   active_streams, active_order, chat_page_tokens,
                   last_broadcast_check, retry_counter, poll_interval,
                   disable_idle_polling, running, stats, todo, current_stream_ids,
                   ended_streams, chat_video, upstream, receiver_up, monHist>>

\* lines 271-273: KeyboardInterrupt during the iteration's sleep: break
Interrupt ==
    /\ pc = "sleep"
    /\ pc' = "interrupted"
    /\ UNCHANGED <<clock, ticks, fwdVars, fwdHist, apiVars, apiHist,
                   active_streams, active_order, chat_page_tokens,
                   last_broadcast_check, retry_counter, poll_interval,
                   disable_idle_polling, running, stats, todo, current_stream_ids,
                   ended_streams, chat_video, upstream, receiver_up, monHist>>

NextSmart ==
    \/ SmartCheckStart
    \/ LightItem
    \/ FullItem
    \/ MonitorChat
    \/ FullCollectEnded
    \/ EndedItem
    \/ PostCheck
    \/ LoopSweepClear
    \/ LoopSweepEntry
    \/ LoopSweepReturn
    \/ Sleep
    \/ Except
    \/ Stop
    \/ LoopExit
    \/ Interrupt

SpecSmart == InitSmart /\ [][NextSmart]_vars

(***************************************************************************)
(* SpecCallback: the callback-server task handling feed notifications     *)
(* (server.py:162-221) while the polling task runs full checks of one      *)
(* stream.                                                                 *)
(* A do_POST is one step: its only shared objects are the API client and   *)
(* the forwarder.                                                          *)
(***************************************************************************)
CallbackPayloads == {Item(TRUE, 100, FALSE), Item(TRUE, 115, TRUE)}

\* any details at all
HasLiveDetails_Any(video_details) == video_details.present

\* server.py:192: video_details and "liveStreamingDetails" in video_details
HasLiveDetails(video_details) ==
    video_details.present /\ video_details.lsd

\* server.py:193-203: event_data of the youtube.live.update event
LiveUpdateData(video_id) == [video_id |-> video_id]

\* server.py:162-221, for a request whose path is not under /example/; the
\* upstream and the receiver are as the running iteration finds them
CallbackPost ==
    /\ posts < MaxPosts
    /\ posts' = posts + 1
    /\ \/ \E video_id \in Videos, payload \in DetailsResponses :
             LET g == GatewayCall("videos", upstream, TRUE)
                 video_details == IF g.ok THEN payload ELSE None
                 events ==
                     IF HasLiveDetails(video_details)
                     THEN <<<<EVENT_LIVE_UPDATE, LiveUpdateData(video_id)>>>>
                     ELSE <<>>
                 r == ForwardAll(failed_events, g.now, events,
                                 [i \in 1..Len(events) |-> ReceiverOutcome])
             IN  /\ ApiState(g)
                 /\ failed_events' = r.failed_events
                 /\ clock' = r.now
                 /\ last_post' = [notification |-> Named(video_id),
                                  details |-> video_details,
                                  calls |-> <<<<"videos", video_id>>>>,
                                  events |-> events, status |-> 200]
       \/ \E notification \in Notifications :
             /\ notification.kind # "named"
             /\ last_post' = [NoPost EXCEPT
                                !.notification = notification,
                                !.status = IF notification.kind = "bad_xml"
                                           THEN 400 ELSE 200]
             /\ UNCHANGED <<clock, failed_events, apiVars>>
    /\ UNCHANGED <<ticks, sweep_pc, failed_copy, fwdHist, apiHist, monVars,
                   checkHist, getHist, signVars, taskVars, fileVars>>

CallbackCheckStart ==
    /\ cycles < MaxCallbackCycles
    /\ LoopCheckStartOn({"ok"}, {<<"V1">>})

CallbackFullItem == FullItemOn(CallbackPayloads, FALSE)

NextCallback ==
    \/ CallbackPost
    \/ CallbackCheckStart
    \/ CallbackFullItem
    \/ MonitorChat
    \/ FullCollectEnded
    \/ PostCheck
    \/ LoopSweepClear
    \/ LoopSweepEntry
    \/ LoopSweepReturn
    \/ Sleep

SpecCallback == InitPlain /\ [][NextCallback]_vars

(***************************************************************************)
(* SpecTasks: the tasks that share the forwarder, each with the forwarder  *)
(* operations its code calls: the polling task (monitor.py:262 and the     *)
(* forward_event calls of its checks), the callback-server task            *)
(* (server.py:207) and the threads it starts for example events            *)
(* (server.py:143-147 running server.py:23-26).  A task runs its calls one *)
(* after the other; tasks interleave at every step of a sweep.             *)
(***************************************************************************)
Tasks == {"polling", "server", "trigger1", "trigger2"}

\* every task running sweeps
TaskCalls_All(task) == {"forward_event", "retry_failed_events"}

TaskCalls(task) ==
    IF task = "polling" THEN {"forward_event", "retry_failed_events"}
    ELSE {"forward_event"}

TaskForward ==
    \E task \in Tasks :
       /\ "forward_event" \in TaskCalls(task)
       /\ task \notin in_sweep
       /\ calls < MaxTaskCalls
       /\ CallbackForwardEvent

\* a task enters retry_failed_events; the polling task's execution is the
\* one whose steps the model follows
TaskSweepStart ==
    \E task \in Tasks :
       /\ "retry_failed_events" \in TaskCalls(task)
       /\ task \notin in_sweep
       /\ in_sweep' = in_sweep \cup {task}
       /\ IF task = "polling"
          THEN /\ calls + Len(failed_events) <= MaxTaskCalls
               /\ SweepCopy
               /\ SweepCopyHist
          ELSE UNCHANGED <<clock, fwdVars, fwdHist>>
       /\ UNCHANGED <<ticks, apiVars, apiHist, monVars, checkHist, postHist,
                      getHist, signVars, raceVars, fileVars>>

TaskSweepReturn ==
    /\ SweepReturn
    /\ in_sweep' = in_sweep \ {"polling"}
    /\ UNCHANGED <<ticks, fwdHist, apiVars, apiHist, monVars, checkHist,
                   postHist, getHist, signVars, raceVars, fileVars>>

NextTasks ==
    \/ TaskForward
    \/ TaskSweepStart
    \/ FwdSweepClear
    \/ FwdSweepEntry
    \/ TaskSweepReturn

SpecTasks == InitPlain /\ [][NextTasks]_vars

(***************************************************************************)
(* SpecQuota: the API client charging calls and persisting its counter,    *)
(* and the process being started again on the same date or a later one.    *)
(***************************************************************************)
\* an answer with data with Redis taking the write or not, and a quota error
QuotaInputs ==
    {<<Data, TRUE>>, <<Data, FALSE>>,
     <<ErrorBody(403, <<"quotaExceeded">>), TRUE>>}

QuotaGetLiveBroadcasts ==
    /\ api_n < MaxQuotaCalls
    /\ ApiOperationOn("search", SomeItems, QuotaInputs)

QuotaGetVideoDetails ==
    /\ api_n < MaxQuotaCalls
    /\ ApiOperationOn("videos", SomeDetails, QuotaInputs)

NextQuota ==
    \/ QuotaGetLiveBroadcasts
    \/ QuotaGetVideoDetails
    \/ ApiTick
    \/ ApiRestart

SpecQuota == InitPlain /\ [][NextQuota]_vars

(***************************************************************************)
(* SpecSign: top-level forward_event calls of a forwarder with or without  *)
(* a webhook secret, every POST request recorded as it was sent.           *)
(***************************************************************************)
Secrets == {NoSecret, "s1", "s2"}

InitSign ==
    /\ InitCommon
    /\ webhook_secret \in Secrets
    /\ poll_interval = BroadcastCheckInterval
    /\ ~disable_idle_polling

SignCall ==
    /\ sweep_pc = "idle"
    /\ calls < MaxSignCalls
    /\ \E outcome \in AttemptOutcomes, event_type \in SignEventTypes :
          LET r == Forwarded(failed_events, clock, event_type, handed + 1,
                             outcome)
          IN  /\ failed_events' = r.failed_events
              /\ clock' = r.now
              /\ ForwardEventHist(r, event_type, handed + 1, outcome)
              /\ last_requests' = Requests(clock, event_type, handed + 1,
                                           webhook_secret, 0, outcome)
    /\ UNCHANGED <<ticks, sweep_pc, failed_copy, dropped_stale, stale_post,
                   sweep0, apiVars, apiHist, monVars, checkHist, postHist,
                   getHist, webhook_secret, taskVars, fileVars>>

NextSign ==
    \/ SignCall
    \/ Tick

SpecSign == InitSign /\ [][NextSign]_vars

(***************************************************************************)
(* SpecState: the polling task saving its state every fifth iteration, and *)
(* the process being killed and started again: the constructor             *)
(* (monitor.py:27-70) builds a new forwarder and a new API client, resets  *)
(* the memory and calls _load_state on the file it finds, which is the one *)
(* the old process left or one damaged or removed since.                   *)
(***************************************************************************)
FoundFiles == {FileMissing, FileCorrupt, FileOther}

Restart ==
    /\ pc \in {"loop", "sleep"}
    /\ loads < MaxLoads
    /\ \E found \in {state_file} \cup FoundFiles, redis_ok \in BOOLEAN :
          LET load == LoadState(found)
              quota == LoadQuota(redis_quota, clock, redis_ok)
          IN  /\ state_file' = found
              /\ last_load' = [file |-> found, raised |-> load.raised,
                                stored |-> redis_quota, redis_ok |-> redis_ok,
                                at |-> clock,
                                used_before |-> quota_used_today]
              /\ active_streams' = load.memory.active_streams
              /\ active_order' = load.memory.active_order
              /\ chat_page_tokens' = load.memory.chat_page_tokens
              /\ stats' = load.memory.stats
              /\ pc' = IF load.raised THEN "crashed" ELSE "loop"
              /\ quota_used_today' = quota[1]
              /\ quota_reset_date' = quota[2]
    /\ loads' = loads + 1
    /\ failed_events' = <<>>
    /\ sweep_pc' = "idle"
    /\ failed_copy' = <<>>
    /\ api_calls' = <<>>
    /\ quota_exceeded' = FALSE
    /\ last_broadcast_check' = clock
    /\ retry_counter' = 0
    /\ running' = TRUE
    /\ todo' = <<>>
    /\ current_stream_ids' = {}
    /\ ended_streams' = {}
    /\ chat_video' = NoVideo
    /\ check0' = NoCheck
    /\ check_events' = <<>>
    /\ fetched' = NoneFetched
    /\ last_chat' = NoChat
    /\ check_calls' = <<>>
    /\ UNCHANGED <<clock, ticks, fwdHist, redis_quota, apiHist, poll_interval,
                   disable_idle_polling, upstream, receiver_up, cycles,
                   last_lifecycle, ended_twice, scen_log, sideVars, last_save>>

StateLists == {<<"V1">>}
StateChats == {Page(<<>>, Absent), Page(<<"textMessageEvent">>, "t1")}

StateCheckStart ==
    /\ cycles < MaxStateCycles
    /\ LoopCheckStartOn({"ok"}, StateLists)

StateLightItem == LightItemOn(CallbackPayloads)

StateFullItem == FullItemOn(CallbackPayloads, FALSE)

StateChat == MonitorChatWith(StateChats, FALSE)

StateSleep == SleepOn(SaveOutcomes)

NextState ==
    \/ StateCheckStart
    \/ StateLightItem
    \/ StateFullItem
    \/ StateChat
    \/ FullCollectEnded
    \/ PostCheck
    \/ LoopSweepClear
    \/ LoopSweepEntry
    \/ LoopSweepReturn
    \/ StateSleep
    \/ Restart

SpecState == InitPlain /\ [][NextState]_vars

(***************************************************************************)
(* SpecShutdown: the polling task interrupted at any point of an iteration *)
(* (KeyboardInterrupt leaves _polling_loop by the break of line 273 or,    *)
(* raised outside the try block, by propagating), after which main's       *)
(* finally clause calls stop() (__main__.py:177-182).                      *)
(***************************************************************************)
\* a stop() that does not save
SaveOnStop_Never(file, memory, outcome) == file

\* monitor.py:198-199: stop() calls _save_state
SaveOnStop(file, memory, outcome) == SaveState(file, memory, outcome)

InterruptAny ==
    /\ pc \notin {"interrupted", "stopped"}
    /\ pc' = "interrupted"
    /\ UNCHANGED <<clock, ticks, fwdVars, fwdHist, apiVars, apiHist,
                   active_streams, active_order, chat_page_tokens,
                   last_broadcast_check, retry_counter, poll_interval,
                   disable_idle_polling, running, stats, todo, current_stream_ids,
                   ended_streams, chat_video, upstream, receiver_up, monHist>>

\* monitor.py:193-211 stop(): running = False, then _save_state, which ends
\* in one of its outcomes; closing the server and unsubscribing write none
\* of the monitor's state
Shutdown ==
    /\ pc = "interrupted"
    /\ running' = FALSE
    /\ pc' = "stopped"
    /\ \E outcome \in SaveOutcomes :
          LET memory == Memory(active_streams, active_order, chat_page_tokens,
                               stats)
          IN  /\ state_file' = SaveOnStop(state_file, memory, outcome)
              /\ last_save' = [outcome |-> outcome, memory |-> memory,
                               completed |-> IF outcome = "ok" THEN memory
                                             ELSE last_save.completed]
    /\ UNCHANGED <<clock, ticks, fwdVars, fwdHist, apiVars, apiHist,
                   active_streams, active_order, chat_page_tokens,
                   last_broadcast_check, retry_counter, poll_interval,
                   disable_idle_polling, stats, todo, current_stream_ids,
                   ended_streams, chat_video, upstream, receiver_up, checkHist,
                   sideVars, loads, last_load>>

ShutdownLists == {<<"V1">>, <<>>}

ShutdownCheckStart ==
    /\ cycles < MaxShutdownCycles
    /\ LoopCheckStartOn({"ok"}, ShutdownLists)

NextShutdown ==
    \/ ShutdownCheckStart
    \/ StateFullItem
    \/ StateChat
    \/ FullCollectEnded
    \/ EndedItem
    \/ PostCheck
    \/ LoopSweepClear
    \/ LoopSweepEntry
    \/ LoopSweepReturn
    \/ StateSleep
    \/ InterruptAny
    \/ Shutdown

SpecShutdown == InitPlain /\ [][NextShutdown]_vars

(***************************************************************************)
(* SpecGet: the callback server answering GET requests (server.py:76-120). *)
(***************************************************************************)
\* the values of a query string, as sent, and what parse_qs makes of them:
\* "+" and %xx are decoded
RawValues == {"", "c1", "a+b", "subscribe"}
UrlDecode(raw) == IF raw = "a+b" THEN "a b" ELSE raw

QueryNames == {"hub.challenge", "hub_challenge", "hub.mode"}
\* the query strings of the requests: none, one field, or hub.mode and a
\* second field
Queries ==
    {<<>>}
        \cup {<<<<n, v>>>> : n \in QueryNames, v \in RawValues}
        \cup {<<<<"hub.mode", "subscribe">>, <<n, v>>>> :
                 n \in QueryNames \ {"hub.mode"}, v \in RawValues \ {""}}
GetPaths == {"/callback", "/data/events"}

\* parse_qs(query): the decoded values of the fields named `name`, in order;
\* fields with a blank value are left out (keep_blank_values is off)
RECURSIVE ParseQs(_, _)
ParseQs(query, name) ==
    IF query = <<>> THEN <<>>
    ELSE LET field == Head(query)
             rest == ParseQs(Tail(query), name)
         IN  IF field[1] = name /\ field[2] # ""
             THEN <<UrlDecode(field[2])>> \o rest
             ELSE rest

\* the name the hub gives the field
ChallengeField_Dotted == "hub.challenge"

\* server.py:95-96: the name do_GET looks up
ChallengeField == "hub_challenge"

\* self.path, which has the query string in it
FullPath(request) ==
    IF request.query = <<>> THEN request.path ELSE request.path \o "?"

\* server.py:76-120: the status and the body do_GET sends
DoGet(request) ==
    IF FullPath(request) = "/data/events"
    THEN [status |-> 200, body |-> "available_events"]
    ELSE IF ParseQs(request.query, ChallengeField) # <<>>
    THEN [status |-> 200, body |-> ParseQs(request.query, ChallengeField)[1]]
    ELSE [status |-> 404, body |-> "Not Found"]

CallbackGet ==
    /\ gets < MaxGets
    /\ gets' = gets + 1
    /\ \E path \in GetPaths, query \in Queries :
          LET request == Request(path, query)
              response == DoGet(request)
          IN  last_get' = [request |-> request, status |-> response.status,
                           body |-> response.body]
    /\ UNCHANGED <<clock, ticks, fwdVars, fwdHist, apiVars, apiHist, monVars,
                   checkHist, postHist, signVars, taskVars, fileVars>>

NextGet == CallbackGet

SpecGet == InitPlain /\ [][NextGet]_vars

\* One stream under light and full checks alternating, its viewer count
\* moving among ViewerCounts: counts a tenth apart, just over a tenth apart,
\* and more than ViewerDiffThreshold but less than a tenth apart.
ViewerCounts == {0, 100, 110, 111, 2000, 2150}
ViewerPayloads == {Item(TRUE, n, FALSE) : n \in ViewerCounts}

ViewersCheckStart ==
    /\ cycles < MaxViewerCycles
    /\ LoopCheckStartOn({"ok"}, {<<"V1">>})

ViewersLightItem == LightItemOn(ViewerPayloads)

ViewersFullItem == FullItemOn(ViewerPayloads, FALSE)

NextViewers ==
    \/ ViewersCheckStart
    \/ ViewersLightItem
    \/ ViewersFullItem
    \/ FullCollectEnded
    \/ PostCheck
    \/ LoopSweepClear
    \/ LoopSweepEntry
    \/ LoopSweepReturn
    \/ Sleep

SpecViewers == InitSmart /\ [][NextViewers]_vars

Next ==
    \/ LoopCheckStart
    \/ LightItem
    \/ FullItem
    \/ MonitorChat
    \/ FullCollectEnded
    \/ EndedItem
    \/ PostCheck
    \/ LoopSweepClear
    \/ LoopSweepEntry
    \/ LoopSweepReturn
    \/ Sleep
    \/ Except

Spec == Init /\ [][Next]_vars

(***************************************************************************)
(* SpecScenario: the polling task under the reference scenario.  Every     *)
(* check takes the full path; the list call of the i-th check answers      *)
(* ScenarioLists[i], the details call ScenarioViewers[i] viewers.  The one *)
(* retry sweep of these four iterations runs in the first (retry_counter   *)
(* is 0), when nothing was handed yet: it finds the ring empty and returns.*)
(***************************************************************************)
ScenarioLists == <<<<>>, <<"V1">>, <<"V1">>, <<>>>>
ScenarioViewers == <<0, 100, 115, 0>>

ScenarioCheckStart ==
    /\ cycles < Len(ScenarioLists)
    /\ LoopCheckStartOn({"ok"}, {ScenarioLists[cycles + 1]})

ScenarioItem ==
    /\ cycles < Len(ScenarioLists)
    /\ FullItemOn({Item(TRUE, ScenarioViewers[cycles + 1], c) : c \in BOOLEAN},
                  TRUE)

ScenarioChat == MonitorChatOn(TRUE)

ScenarioEndedItem == EndedItemOn(TRUE)

NextScenario ==
    \/ ScenarioCheckStart
    \/ ScenarioItem
    \/ ScenarioChat
    \/ FullCollectEnded
    \/ ScenarioEndedItem
    \/ PostCheck
    \/ LoopSweepReturn
    \/ Sleep

SpecScenario == InitPlain /\ [][NextScenario]_vars

(***************************************************************************)
(* Claims about the change detector                                        *)
(***************************************************************************)
\* the number of events of this type handed for this video in the running/last check
HandedInCheck(event_type, video_id) ==
    Cardinality({i \in 1..Len(check_events) :
                   check_events[i] = <<event_type, video_id>>})

\* a full check is over: it returned, or an exception ended it
FullCheckOver == check0.path = "full" /\ pc \in {"post_check", "except"}

\* C1: every video id that is active when a full check starts and absent from
\* the check's list response gets exactly one youtube.live.ended event in that
\* check and is afterwards in neither active_streams nor chat_page_tokens; no
\* ended event is handed for an id whose last lifecycle event was ended.
C1_EndedExactlyOnce ==
    /\ FullCheckOver =>
          \A v \in (DOMAIN check0.streams) \ check0.listed :
             /\ HandedInCheck(EVENT_LIVE_ENDED, v) = 1
             /\ v \notin DOMAIN active_streams
             /\ v \notin DOMAIN chat_page_tokens
    /\ ~ended_twice

\* C2: every video id that is not active when a full check starts and is in
\* the check's list response gets exactly one youtube.live.started event in
\* that check and is afterwards in active_streams with the fetched details; no
\* id is in active_streams without a started event handed for it before.
C2_StartedExactlyOnce ==
    /\ FullCheckOver =>
          \A v \in check0.listed \ (DOMAIN check0.streams) :
             /\ HandedInCheck(EVENT_LIVE_STARTED, v) = 1
             /\ v \in DOMAIN active_streams
             /\ active_streams[v] = fetched[v]
    /\ \A v \in DOMAIN active_streams : last_lifecycle[v] # "none"

\* C3: a full check whose broadcast-list call failed hands no
\* youtube.live.ended event and leaves active_streams and chat_page_tokens as
\* they were when it started.
C3_FailedListNoReconciliation ==
    (FullCheckOver /\ ~check0.list_ok) =>
        /\ \A v \in Videos : HandedInCheck(EVENT_LIVE_ENDED, v) = 0
        /\ active_streams = check0.streams
        /\ chat_page_tokens = check0.tokens

LifecycleTypes == {EVENT_LIVE_STARTED, EVENT_LIVE_VIEWERS_UPDATED,
                   EVENT_LIVE_ENDED}
\* the lifecycle events of a log, in order
Lifecycle(log) == SelectSeq(log, LAMBDA e : e[1] \in LifecycleTypes)

ScenarioOver == cycles = Len(ScenarioLists) - 1 /\ pc = "post_check"

\* C4: from an empty active set, the full checks with the list responses [],
\* [V1] (100 viewers), [V1] (115 viewers), [] hand exactly these lifecycle
\* events, in this order: started(V1), viewers_updated(V1, previous 100, new
\* 115), ended(V1); whatever else is handed is a chat event of V1.
C4_ScenarioEvents ==
    ScenarioOver =>
        LET life == Lifecycle(scen_log)
        IN  /\ Len(life) = 3
            /\ life[1] = <<EVENT_LIVE_STARTED, StartedData("V1", Item(TRUE, 100, FALSE))>>
            /\ life[2] = <<EVENT_LIVE_VIEWERS_UPDATED,
                           [video_id |-> "V1", concurrent_viewers |-> 115,
                            previous_viewers |-> 100]>>
            /\ life[3][1] = EVENT_LIVE_ENDED
            /\ life[3][2].video_id = "V1"
            /\ \A i \in 1..Len(scen_log) :
                  /\ scen_log[i][2].video_id = "V1"
                  /\ scen_log[i][1] \in LifecycleTypes
                                         \cup {EVENT_CHAT_MESSAGE,
                                               EVENT_CHAT_SUPERCHAT,
                                               EVENT_CHAT_NEW_SPONSOR}

\* the scenario has run to its end without a chat: the three events are all
\* that was handed
C4_Witness ==
    /\ ScenarioOver
    /\ Len(scen_log) = 3
    /\ DOMAIN active_streams = {}

(***************************************************************************)
(* Claims about the forwarder                                              *)
(***************************************************************************)
Payloads(q) == {q[i][2] : i \in 1..Len(q)}

\* C5: a top-level forward_event returns false and adds exactly one entry to
\* failed_events if and only if all 4 POST attempts fail; when some attempt
\* succeeds it returns true, makes no further attempt and leaves the ring alone.
C5_ForwardEventContract ==
    [][handed' # handed =>
        LET f == last_fwd'
            n == Len(failed_events')
        IN  /\ (f.ret = FALSE) <=> (f.outcome = 0)
            /\ f.ret = FALSE =>
                  /\ f.posts = 4
                  /\ n >= 1
                  /\ n = IF Len(failed_events) < RingCapacity
                         THEN Len(failed_events) + 1 ELSE RingCapacity
                  /\ failed_events'[n] = <<f.event_type, f.event_data, clock'>>
                  /\ SubSeq(failed_events', 1, n - 1)
                       = SubSeq(failed_events, Len(failed_events) - n + 2,
                                Len(failed_events))
            /\ f.ret = TRUE =>
                  /\ f.posts = f.outcome
                  /\ failed_events' = failed_events
    ]_vars

\* C5 witness: one call was delivered and the last call failed all its attempts
C5_Witness ==
    /\ delivered # {}
    /\ last_fwd.ret = FALSE
    /\ last_fwd.posts = 4
    /\ last_fwd.event_data \in Payloads(failed_events)

\* C34: a top-level forward_event call makes at most 4 POST attempts, and it
\* sleeps after each failed attempt but the 4th: 1 s after the first, 2 s
\* after the second, 4 s after the third, which are all its sleeps.
C34_BackoffSchedule ==
    [][handed' # handed =>
        LET f == last_fwd'
            failed_attempts == IF f.ret THEN f.posts - 1 ELSE f.posts
        IN  /\ f.posts \in 1..4
            /\ f.waits = SubSeq(<<1, 2, 4>>, 1, f.posts - 1)
            /\ Len(f.waits) = IF failed_attempts = 4 THEN 3 ELSE failed_attempts
            /\ clock' - clock = CASE f.posts = 1 -> 0
                                  [] f.posts = 2 -> 1
                                  [] f.posts = 3 -> 3
                                  [] OTHER -> 7
    ]_vars

\* C34 witness: a call whose 4 attempts all failed, after a call that was
\* delivered
C34_Witness ==
    /\ handed >= 2
    /\ delivered # {}
    /\ last_fwd.outcome = 0
    /\ last_fwd.posts = 4
    /\ last_fwd.waits = <<1, 2, 4>>
    /\ clock >= 7

\* C6: an event first enqueued more than 1 hour ago is never POSTed again by
\* a retry sweep, and it is no longer in the ring when the next sweep is over.
C6_StaleNeverRetried ==
    /\ ~stale_post
    /\ sweep_pc = "done" =>
          \A p \in Payloads(failed_events) :
              ~IsStale(sweep0.clock, first_enqueue[p])

\* C7: a retry sweep re-enqueues each entry that fails again exactly once, so
\* the ring never holds more entries after a sweep than before it.
C7_SweepNeverGrows ==
    sweep_pc = "done" => Len(failed_events) <= sweep0.len

\* the payloads a running sweep has copied and not yet visited
InSweep == IF sweep_pc \in {"clear", "entry"} THEN Payloads(failed_copy) ELSE {}

\* C8: every event handed to forward_event is, at every later moment,
\* delivered, or pending (in the ring, or in the hands of the running sweep),
\* or was removed by capacity overflow or by the staleness rule.
C8_AtLeastOnce ==
    \A p \in 1..handed :
        \/ p \in delivered
        \/ p \in Payloads(failed_events)
        \/ p \in InSweep
        \/ p \in dropped_overflow
        \/ p \in dropped_stale

\* C9: failed_events never holds more than its capacity, and an append to a
\* full ring removes exactly the oldest entry: after a failed top-level call
\* the ring is its old tail plus the new entry, after a failed re-attempt of a
\* sweep (two appends) its old rest from the third entry plus the two.
C9_RingBounded ==
    /\ [](Len(failed_events) <= RingCapacity)
    /\ [][(calls' # calls /\ failed_events' # failed_events
            /\ Len(failed_events) = RingCapacity) =>
           IF handed' # handed
           THEN failed_events' =
                  Append(Tail(failed_events),
                         <<last_fwd'.event_type, last_fwd'.event_data, clock'>>)
           ELSE /\ Len(failed_events') = RingCapacity
                /\ SubSeq(failed_events', 1, RingCapacity - 2)
                     = SubSeq(failed_events, 3, RingCapacity)
                /\ failed_events'[RingCapacity] = Head(failed_copy)
                /\ failed_events'[RingCapacity - 1]
                     = <<Head(failed_copy)[1], Head(failed_copy)[2], clock'>>
      ]_vars

\* C9 witness: the full ring has pushed out an entry
C9_Witness ==
    /\ dropped_overflow # {}
    /\ Len(failed_events) = RingCapacity

(***************************************************************************)
(* Claims about the chat poll and the polling cycle                        *)
(***************************************************************************)
MixedItems == <<"textMessageEvent", "otherEvent">>

\* C16: a _monitor_chat whose page holds one textMessageEvent and one item of
\* a type without a branch hands exactly one event to the forwarder, a
\* youtube.chat.message of the video, and sets chat_page_tokens[video] to the
\* page's nextPageToken, or to "" when the page has none.
C16_ChatPage ==
    [][(pc = "chat" /\ last_chat'.video_id = chat_video
          /\ last_chat'.chat_data.present
          /\ last_chat'.chat_data.items = MixedItems) =>
         /\ scen_log' = Append(scen_log,
                               <<EVENT_CHAT_MESSAGE, [video_id |-> chat_video]>>)
         /\ chat_page_tokens'[chat_video] =
               IF last_chat'.chat_data.nextPageToken = Absent
               THEN ""
               ELSE last_chat'.chat_data.nextPageToken
      ]_vars

\* C16 witness: a page of the two items without a token has been read, one
\* event was handed and the video's token is the empty string
C16_Witness ==
    /\ last_chat.video_id \in Videos
    /\ last_chat.chat_data = Page(MixedItems, Absent)
    /\ last_chat.events = <<<<EVENT_CHAT_MESSAGE, ChatData(last_chat.video_id)>>>>
    /\ chat_page_tokens[last_chat.video_id] = ""

\* a light-refresh check has gone through its loop and returned
LightCheckOver == check0.path = "light" /\ pc = "post_check"

\* C17: a tracked video id whose details call answered None on the
\* light-refresh path makes the live -> ended transition in that check: one
\* youtube.live.ended event is handed for it and it leaves the active set.
C17_LightNoneEnds ==
    LightCheckOver =>
        \A v \in DOMAIN check0.streams :
           fetched[v] = None =>
              /\ HandedInCheck(EVENT_LIVE_ENDED, v) = 1
              /\ v \notin DOMAIN active_streams

\* how often the running check has called `operation` for `video_id`
CallsIn(operation, video_id) ==
    Cardinality({i \in 1..Len(check_calls) :
                   check_calls[i] = <<operation, video_id>>})

\* the check of an iteration is over: it returned, was skipped, or an
\* exception ended it
CycleOver == check0.path # "none" /\ pc \in {"post_check", "except"}

\* C18: a cycle that starts with a non-empty active set less than 300 s after
\* the last full check makes no broadcast-list call and exactly one
\* video-details call per tracked id; every other cycle makes exactly one
\* broadcast-list call and sets last_broadcast_check to the cycle's time.
C18_SmartPolling ==
    CycleOver =>
        IF DOMAIN check0.streams # {} /\ check0.since < BroadcastCheckInterval
        THEN /\ CallsIn("search", NoVideo) = 0
             /\ \A v \in DOMAIN check0.streams : CallsIn("videos", v) = 1
        ELSE /\ CallsIn("search", NoVideo) = 1
             /\ last_broadcast_check = check0.now

\* the viewer counts a finished check compared for a stream it tracked from
\* its start, and whether it handed a viewers_updated event for the stream
Compared(v) ==
    /\ CycleOver
    /\ v \in DOMAIN check0.streams
    /\ fetched[v].present
    /\ fetched[v].lsd
OldViewers(v) == ViewersOf(check0.streams[v])
NewViewers(v) == ViewersOf(fetched[v])
Updated(v) == HandedInCheck(EVENT_LIVE_VIEWERS_UPDATED, v) > 0

\* C19 as stated: on either path a youtube.live.viewers_updated event is
\* handed for a tracked stream only when old > 0 and |new - old| / old > 0.10;
\* a change of 10% or less never hands one.
C19_OnlyOverTenPercent ==
    \A v \in Videos :
       (Compared(v) /\ Updated(v)) =>
          /\ OldViewers(v) > 0
          /\ PctDen * Abs(NewViewers(v) - OldViewers(v)) > PctNum * OldViewers(v)

\* C19 amended: on the light path the event is handed only when old > 0 and
\* |new - old| / old > 0.10; on the full path only when old and new are not 0
\* and |new - old| / old > 0.10 or |new - old| > 100. A change of 10% or less
\* hands no event on the light path, and on the full path none unless it is a
\* change of more than 100 viewers.
C19_OverTenPercentOrHundred ==
    \A v \in Videos :
       (Compared(v) /\ Updated(v)) =>
          /\ OldViewers(v) > 0
          /\ \/ PctDen * Abs(NewViewers(v) - OldViewers(v))
                  > PctNum * OldViewers(v)
             \/ /\ check0.path = "full"
                /\ NewViewers(v) > 0
                /\ Abs(NewViewers(v) - OldViewers(v)) > ViewerDiffThreshold

\* C19 witness: a full check has handed the event for a change from 2000 to
\* 2150 viewers
C19_Witness ==
    /\ Compared("V1")
    /\ check0.path = "full"
    /\ OldViewers("V1") = 2000
    /\ NewViewers("V1") = 2150
    /\ Updated("V1")

\* C20: an exception raised inside an iteration of the polling loop does not
\* end the loop: the handler sleeps poll_interval and control is back at the
\* head of the loop, where the next iteration starts while running is true;
\* the loop is left only from its head with running false, or by a
\* KeyboardInterrupt.
C20_ExceptionKeepsLoop ==
    /\ [][(pc = "except" /\ pc' # pc) =>
            /\ pc' = "loop"
            /\ clock' = clock + poll_interval
            /\ running' = running
            /\ cycles' = cycles + 1
         ]_vars
    /\ [][(pc' = "done" /\ pc # "done") => (pc = "loop" /\ ~running)]_vars
    /\ [][(pc' = "interrupted" /\ pc # "interrupted") => pc = "sleep"]_vars
    /\ []((pc = "loop" /\ running /\ cycles < MaxSmartCycles)
            => ENABLED SmartCheckStart)

\* C20 witness: a check is running in an iteration that follows one ended by
\* an exception (such an iteration does not count in retry_counter)
C20_Witness ==
    /\ pc \in {"light", "full"}
    /\ cycles > retry_counter
    /\ running

(***************************************************************************)
(* Claims about the callback server                                        *)
(***************************************************************************)
\* C21: a do_POST for a notification that names a video id makes exactly one
\* get_video_details call, for that id, and hands exactly one
\* youtube.live.update event if the details carry liveStreamingDetails and
\* none otherwise; no do_POST changes active_streams or chat_page_tokens.
C21_CallbackPost ==
    /\ []((posts > 0 /\ last_post.notification.kind = "named") =>
            /\ last_post.calls =
                  <<<<"videos", last_post.notification.video_id>>>>
            /\ last_post.events =
                  IF last_post.details.present /\ last_post.details.lsd
                  THEN <<<<EVENT_LIVE_UPDATE,
                          [video_id |-> last_post.notification.video_id]>>>>
                  ELSE <<>>)
    /\ [][posts' # posts =>
            /\ active_streams' = active_streams
            /\ chat_page_tokens' = chat_page_tokens]_vars

\* C21 witness: with a stream tracked and its chat token stored, a
\* notification naming a video has led to one youtube.live.update event
C21_Witness ==
    /\ last_post.notification.kind = "named"
    /\ Len(last_post.events) = 1
    /\ DOMAIN active_streams # {}
    /\ DOMAIN chat_page_tokens # {}

\* the raw values of the hub.challenge fields of a query
RECURSIVE RawChallenges(_)
RawChallenges(query) ==
    IF query = <<>> THEN <<>>
    ELSE IF Head(query)[1] = "hub.challenge" /\ Head(query)[2] # ""
         THEN <<Head(query)[2]>> \o RawChallenges(Tail(query))
         ELSE RawChallenges(Tail(query))

\* C22: a GET request whose query carries hub.challenge is answered with
\* status 200 and a body equal to the challenge token as sent.
C22_ChallengeEchoed ==
    (gets > 0 /\ RawChallenges(last_get.request.query) # <<>>) =>
        /\ last_get.status = 200
        /\ last_get.body = RawChallenges(last_get.request.query)[1]


(***************************************************************************)
(* Claims about the state file (SpecState)                                 *)
(***************************************************************************)
\* C23: a construction that finds the state file missing, or holding what
\* cannot be decoded, gets no exception out of _load_state, and the monitor
\* starts its loop with an empty active_streams and an empty
\* chat_page_tokens.
C23_LoadBestEffort ==
    [][(loads' # loads /\ last_load'.file.kind \in {"missing"} \cup Undecodable)
          => /\ ~last_load'.raised
             /\ pc' = "loop"
             /\ running'
             /\ active_streams' = EmptyDictOf
             /\ chat_page_tokens' = EmptyDictOf]_vars

\* a process whose save failed in the middle of the write was started again
\* on the truncated file
C23_Witness ==
    /\ loads = 1
    /\ last_save.outcome = "write_fails"
    /\ last_save.memory.active_streams # EmptyDictOf
    /\ last_load.file = FileCorrupt
    /\ ~last_load.raised
    /\ pc = "loop"
    /\ active_streams = EmptyDictOf

\* C30: a construction that finds the state file as a completed _save_state
\* left it restores exactly the active_streams map, the chat_page_tokens map
\* and the counters that were in memory at that save, all from that one
\* save.
C30_StateRoundTrip ==
    [][(loads' # loads /\ last_load'.file = state_file
            /\ state_file.kind = "pickle")
          => /\ ~last_load'.raised
             /\ Memory(active_streams', active_order', chat_page_tokens',
                       stats') = last_save.completed]_vars

\* a process that was tracking a stream with a chat token, had forwarded
\* events and had saved all of it, was started again on that file
C30_Witness ==
    /\ loads = 1
    /\ last_load.file.kind = "pickle"
    /\ pc = "loop"
    /\ retry_counter = 0
    /\ DOMAIN active_streams # {}
    /\ DOMAIN chat_page_tokens # {}
    /\ stats.events_forwarded > 0
    /\ stats.api_calls > 0
    /\ Memory(active_streams, active_order, chat_page_tokens, stats)
          = last_save.completed

(***************************************************************************)
(* Claims about the signature (SpecSign)                                   *)
(***************************************************************************)
\* C24: every POST request of a forward_event carries the signature header
\* if and only if a webhook secret is configured, and the header's value is
\* "sha256=" followed by the hex HMAC-SHA256, keyed by the secret, of the
\* body that very request carries.
C24_SignatureHeader ==
    \A i \in DOMAIN last_requests :
        LET request == last_requests[i]
            signatures == {h \in request.headers : h[1] = SignatureHeader}
        IN  /\ (signatures # {}) <=> (webhook_secret # NoSecret)
            /\ \A h \in signatures :
                  h[2] = "sha256=" \o HmacSha256Hex(webhook_secret,
                                                    request.body)

\* with a secret configured, a call made four attempts, whose envelopes (and
\* so whose signatures) all differ
C24_Witness ==
    /\ webhook_secret # NoSecret
    /\ Len(last_requests) = MaxRetries + 1
    /\ \A i, j \in DOMAIN last_requests :
          i # j => /\ last_requests[i].body # last_requests[j].body
                   /\ last_requests[i].headers # last_requests[j].headers

(***************************************************************************)
(* Claims about the tasks sharing the forwarder (SpecTasks)                *)
(***************************************************************************)
\* C25: at no time do two tasks have an execution of retry_failed_events in
\* progress.
C25_OneSweepAtATime == Cardinality(in_sweep) <= 1

\* the polling task is in the middle of a sweep, has cleared the ring and
\* visited no entry yet, and another task's forward_event has already put an
\* event into the ring
C25_Witness ==
    /\ in_sweep = {"polling"}
    /\ sweep_pc = "entry"
    /\ Len(failed_copy) = sweep0.len
    /\ failed_events # <<>>

ChargedOnce ==
    /\ quota_reset_date = DateOf(last_api.at)
    /\ quota_used_today =
          (IF DateOf(last_api.at) # last_api.date_before
           THEN 0 ELSE last_api.used_before) + QuotaCost(last_api.operation)

\* the rate window holds the calls the rate check kept and, after them, the
\* time of the last operation's request
RecordedOnce ==
    api_calls = DequeAppend(EvictOld(last_api.window_before, last_api.called_at),
                            last_api.at, ApiCallsMaxLen)

\* C27: a gateway operation invoked with the exceeded flag not set performs
\* the upstream request and charges its cost whatever the counter holds, and
\* the flag is set after it only when the upstream answered with a quota
\* error.
C27_CounterNeverBlocks ==
    (api_n > 0 /\ ~last_api.gated) =>
        /\ last_api.performed
        /\ ChargedOnce
        /\ quota_exceeded => last_api.outcome = "quota_error"

\* C28: a gateway operation invoked with the exceeded flag not set runs the
\* rate check before its request, and the request, whatever its outcome, is
\* recorded once in the rate window and charged once to the quota.
C28_EveryRequestRecorded ==
    (api_n > 0 /\ ~last_api.gated) =>
        /\ last_api.performed
        /\ last_api.at >= last_api.called_at
        /\ last_api.recorded
        /\ RecordedOnce
        /\ ChargedOnce

(***************************************************************************)
(* Claims about the quota record (SpecQuota)                               *)
(***************************************************************************)
\* C29: a client constructed while Redis holds a quota record (and answers
\* the read) takes the record's total when the record's date is the current
\* UTC date, and starts at 0 on the current date when the record's date is
\* an earlier one.
C29_QuotaRestoredSameDate ==
    [][(loads' # loads /\ last_load'.redis_ok /\ redis_quota # <<>>)
          => IF redis_quota[2] = DateOf(clock)
             THEN /\ quota_used_today' = redis_quota[1]
                  /\ quota_reset_date' = redis_quota[2]
             ELSE /\ quota_used_today' = 0
                  /\ quota_reset_date' = DateOf(clock)]_vars

\* a client whose last write Redis did not take was started again on the
\* same date and counts from the last persisted total, which is below what
\* the old process had counted
C29_Witness ==
    /\ loads = 1
    /\ last_load.redis_ok
    /\ last_load.stored # <<>>
    /\ last_load.stored[2] = DateOf(last_load.at)
    /\ last_load.stored[1] > 0
    /\ last_load.used_before > last_load.stored[1]
    /\ clock = last_load.at
    /\ api_calls = <<>>
    /\ quota_used_today = last_load.stored[1]

(***************************************************************************)
(* Claims about the shutdown (SpecShutdown)                                *)
(***************************************************************************)
\* C31: after an interrupt of the polling loop and stop(), when the save of
\* stop() has completed, the state file holds the active_streams and
\* chat_page_tokens (and counters) the memory holds at the end: the save
\* came after the loop's last write to them.
C31_ShutdownSavesFinalState ==
    (pc = "stopped" /\ last_save.outcome = "ok") =>
        /\ state_file.kind = "pickle"
        /\ Restored(state_file)
             = Memory(active_streams, active_order, chat_page_tokens, stats)

\* the loop was interrupted in the middle of a check of its second
\* iteration, after the periodic save of the first, with a stream tracked
\* and a chat token stored since that save
C31_Witness ==
    /\ pc = "stopped"
    /\ last_save.outcome = "ok"
    /\ cycles = 1
    /\ todo # <<>>
    /\ DOMAIN active_streams # {}
    /\ DOMAIN chat_page_tokens # {}

(***************************************************************************)
(* The lifecycle of one video over several full checks (SpecLifecycle):    *)
(* the list call names the video or not, the details call answers with or  *)
(* without liveStreamingDetails, or not at all.                            *)
(***************************************************************************)
LifecycleLists == {<<"V1">>, <<>>}
LifecyclePayloads == {None, Item(FALSE, 0, FALSE), Item(TRUE, 100, FALSE)}

LifecycleCheckStart ==
    /\ cycles < MaxLifecycleCycles
    /\ LoopCheckStartOn({"ok"}, LifecycleLists)

LifecycleFullItem == FullItemOn(LifecyclePayloads, FALSE)

NextLifecycle ==
    \/ LifecycleCheckStart
    \/ LifecycleFullItem
    \/ FullCollectEnded
    \/ EndedItem
    \/ PostCheck
    \/ LoopSweepClear
    \/ LoopSweepEntry
    \/ LoopSweepReturn
    \/ StateSleep
    \/ Except

SpecLifecycle == InitPlain /\ [][NextLifecycle]_vars

\* the positions in check_events' of the events this step handed over
HandedNow == (Len(check_events) + 1)..Len(check_events')

\* C32: within one run of the monitor, a youtube.live.ended event and a
\* youtube.live.viewers_updated event are handed only for an id that is in
\* active_streams when the event is built, and a youtube.live.started event
\* is handed for an id only when the id had no started event before or
\* exactly one ended event since its last started event.
C32_LifecycleStateMachine ==
    [][\A i \in HandedNow :
          LET event_type == check_events'[i][1]
              video_id == check_events'[i][2]
          IN  /\ event_type \in {EVENT_LIVE_ENDED, EVENT_LIVE_VIEWERS_UPDATED}
                    => video_id \in DOMAIN active_streams
              /\ event_type = EVENT_LIVE_STARTED
                    => last_lifecycle[video_id]
                          \in {"none", "ended", "ended_unstarted"}]_vars

(***************************************************************************)
(* The order of the events of one check (SpecOrder): two videos, each with *)
(* a chat, over full checks that start, update and end them.               *)
(***************************************************************************)
OrderLists == {<<"V1", "V2">>, <<"V2">>}
OrderPayloads == {Item(TRUE, 100, TRUE), Item(TRUE, 115, TRUE)}
OrderChats == {Page(<<"superChatEvent", "textMessageEvent">>, "t1"),
               Page(<<"textMessageEvent", "otherEvent", "newSponsorEvent">>,
                    Absent)}

OrderCheckStart ==
    /\ cycles < MaxOrderCycles
    /\ LoopCheckStartOn({"ok"}, OrderLists)

OrderFullItem == FullItemOn(OrderPayloads, FALSE)

OrderChat == MonitorChatWith(OrderChats, FALSE)

NextOrder ==
    \/ OrderCheckStart
    \/ OrderFullItem
    \/ OrderChat
    \/ FullCollectEnded
    \/ EndedItem
    \/ PostCheck
    \/ LoopSweepClear
    \/ LoopSweepEntry
    \/ LoopSweepReturn
    \/ Sleep

SpecOrder == InitPlain /\ [][NextOrder]_vars

ChatEventTypes ==
    {EVENT_CHAT_MESSAGE, EVENT_CHAT_SUPERCHAT, EVENT_CHAT_NEW_SPONSOR}

\* the event type _monitor_chat forwards for an item of this type
ChatEventOf(message_type) ==
    CASE message_type = "textMessageEvent" -> EVENT_CHAT_MESSAGE
      [] message_type = "superChatEvent" -> EVENT_CHAT_SUPERCHAT
      [] message_type = "newSponsorEvent" -> EVENT_CHAT_NEW_SPONSOR
      [] OTHER -> ""

\* the positions of the items of a page that have an event, in page order
RECURSIVE Forwardable(_, _)
Forwardable(items, i) ==
    IF i > Len(items) THEN <<>>
    ELSE IF ChatEventOf(items[i]) # "" THEN <<i>> \o Forwardable(items, i + 1)
    ELSE Forwardable(items, i + 1)

\* in the events of the running check, the started or viewers_updated event
\* of a video comes before each of its chat events, and no video has both an
\* ended event and a chat event
OrderInCheck ==
    \A i, j \in 1..Len(check_events) :
       (/\ check_events[j][1] \in ChatEventTypes
        /\ check_events[i][2] = check_events[j][2])
          => /\ check_events[i][1]
                   \in {EVENT_LIVE_STARTED, EVENT_LIVE_VIEWERS_UPDATED} => i < j
             /\ check_events[i][1] # EVENT_LIVE_ENDED

\* a _monitor_chat call that got a page hands one event per item that has
\* one, the k-th event being the one of the k-th such item of the page
PageInOrder ==
    (pc = "chat" /\ pc' = "full" /\ last_chat'.chat_data.present) =>
        LET items == last_chat'.chat_data.items
            at == Forwardable(items, 1)
        IN  /\ Len(check_events') = Len(check_events) + Len(at)
            /\ \A k \in 1..Len(at) :
                  check_events'[Len(check_events) + k]
                     = <<ChatEventOf(items[at[k]]), chat_video>>

\* C33: within one polling cycle the started or viewers_updated event of a
\* video is handed to the forwarder before every chat event of that video,
\* no chat event is handed for a video whose ended event is handed in the
\* cycle, and the chat messages of one page are handed one by one in the
\* order they have in the response.
C33_EventOrderInCycle == [](OrderInCheck) /\ [][PageInOrder]_vars

\* a full check is over that handed a viewers_updated event for V2, then the
\* two chat events of V2's page in page order, then an ended event for V1
C33_Witness ==
    /\ FullCheckOver
    /\ check_events = <<<<EVENT_LIVE_VIEWERS_UPDATED, "V2">>,
                        <<EVENT_CHAT_SUPERCHAT, "V2">>,
                        <<EVENT_CHAT_MESSAGE, "V2">>,
                        <<EVENT_LIVE_ENDED, "V1">>>>

(***************************************************************************)
(* Claims about the stored snapshot (SpecSmart)                            *)
(***************************************************************************)
\* the tracked video whose details this step of a check has fetched, if any
RefreshedNow ==
    {v \in DOMAIN active_streams :
        /\ pc \in {"light", "full"}
        /\ Len(check_calls') = Len(check_calls) + 1
        /\ check_calls'[Len(check_calls')] = <<"videos", v>>}

\* C35: when a check, on the light or the full path, gets details that carry
\* liveStreamingDetails for a video that is tracked, active_streams holds
\* these details for the video afterwards, whether or not a viewers_updated
\* event was handed.
C35_SnapshotReplaced ==
    [][\A v \in RefreshedNow :
          (fetched'[v].present /\ fetched'[v].lsd)
              => /\ v \in DOMAIN active_streams'
                 /\ active_streams'[v] = fetched'[v]]_vars

(***************************************************************************)
(* SpecRace: the polling thread and the callback server's thread call      *)
(* gateway operations of the one API client, which has no lock.  An        *)
(* operation runs _check_rate_limit, makes its request, and then runs      *)
(* _record_api_call, whose statements read and write the client's fields   *)
(* one at a time; the other thread may run between any two of them.        *)
(***************************************************************************)
RaceOperations(task) ==
    IF task = "polling" THEN {"search", "videos"} ELSE {"videos"}

raceFrame == <<ticks, fwdVars, fwdHist, apiHist, monVars, checkHist, postHist,
               getHist, signVars, in_sweep, fileVars>>

\* lines 196-201 (219-225, 250-256): the quota gate, _check_rate_limit and
\* the request, which is answered
RaceRequest(task) ==
    /\ rec_pc[task] = "idle"
    /\ Len(race_log) + Cardinality({t \in ApiTasks : rec_pc[t] = "append"})
          < MaxRaceCalls
    /\ ~quota_exceeded
    /\ \E operation \in RaceOperations(task) :
          LET r == CheckRateLimit(api_calls, clock)
          IN  /\ api_calls' = r.api_calls
              /\ clock' = r.now
              /\ rec_local' = [rec_local EXCEPT
                                 ![task] = [NoRecordLocals EXCEPT
                                              !.operation = operation]]
    /\ rec_pc' = [rec_pc EXCEPT ![task] = "append"]
    /\ UNCHANGED <<quota_exceeded, quota_used_today, quota_reset_date,
                   redis_quota, race_log, raceFrame>>

\* line 100: self.api_calls.append(datetime.now(timezone.utc))
RaceAppend(task) ==
    /\ rec_pc[task] = "append"
    /\ api_calls' = DequeAppend(api_calls, clock, ApiCallsMaxLen)
    /\ race_log' = Append(race_log,
                          <<clock, QuotaCost(rec_local[task].operation),
                            DateOf(clock)>>)
    /\ rec_local' = [rec_local EXCEPT ![task].entry = Len(race_log) + 1]
    /\ rec_pc' = [rec_pc EXCEPT ![task] = "date"]
    /\ UNCHANGED <<clock, quota_exceeded, quota_used_today, quota_reset_date,
                   redis_quota, raceFrame>>

\* lines 103-107: today is taken and compared with quota_reset_date, and
\* the reset is logged
RaceDate(task) ==
    /\ rec_pc[task] = "date"
    /\ rec_local' = [rec_local EXCEPT ![task].today = DateOf(clock)]
    /\ race_log' = [race_log EXCEPT ![rec_local[task].entry][3] = DateOf(clock)]
    /\ rec_pc' = [rec_pc EXCEPT
                    ![task] = IF DateOf(clock) # quota_reset_date
                              THEN "reset" ELSE "read"]
    /\ UNCHANGED <<clock, apiVars, raceFrame>>

\* lines 108-109: self.quota_used_today = 0; self.quota_reset_date = today
RaceReset(task) ==
    /\ rec_pc[task] = "reset"
    /\ quota_used_today' = 0
    /\ quota_reset_date' = rec_local[task].today
    /\ rec_pc' = [rec_pc EXCEPT ![task] = "read"]
    /\ UNCHANGED <<clock, quota_exceeded, api_calls, redis_quota, rec_local,
                   race_log, raceFrame>>

\* lines 112-113: the right-hand side of self.quota_used_today += cost
RaceRead(task) ==
    /\ rec_pc[task] = "read"
    /\ rec_local' = [rec_local EXCEPT ![task].used = quota_used_today]
    /\ rec_pc' = [rec_pc EXCEPT ![task] = "write"]
    /\ UNCHANGED <<clock, apiVars, race_log, raceFrame>>

\* line 113: the store of self.quota_used_today += cost
RaceWrite(task) ==
    /\ rec_pc[task] = "write"
    /\ quota_used_today' =
          rec_local[task].used + QuotaCost(rec_local[task].operation)
    /\ rec_pc' = [rec_pc EXCEPT ![task] = "save"]
    /\ UNCHANGED <<clock, quota_exceeded, quota_reset_date, api_calls,
                   redis_quota, rec_local, race_log, raceFrame>>

\* line 116: _save_quota_to_redis(), of the fields as they are now
RaceSave(task) ==
    /\ rec_pc[task] = "save"
    /\ redis_quota' = <<quota_used_today, quota_reset_date>>
    /\ rec_pc' = [rec_pc EXCEPT ![task] = "idle"]
    /\ rec_local' = [rec_local EXCEPT ![task] = NoRecordLocals]
    /\ UNCHANGED <<clock, quota_exceeded, quota_used_today, quota_reset_date,
                   api_calls, race_log, raceFrame>>

\* time passes: a second, or a day
RaceTick ==
    /\ ticks < MaxTicks
    /\ ticks' = ticks + 1
    /\ \E d \in {1, DayLength} : clock' = clock + d
    /\ UNCHANGED <<fwdVars, fwdHist, apiVars, apiHist, monVars, monHist>>

RaceRequestAny == \E task \in ApiTasks : RaceRequest(task)
RaceAppendAny == \E task \in ApiTasks : RaceAppend(task)
RaceDateAny == \E task \in ApiTasks : RaceDate(task)
RaceResetAny == \E task \in ApiTasks : RaceReset(task)
RaceReadAny == \E task \in ApiTasks : RaceRead(task)
RaceWriteAny == \E task \in ApiTasks : RaceWrite(task)
RaceSaveAny == \E task \in ApiTasks : RaceSave(task)

NextRace ==
    \/ RaceRequestAny
    \/ RaceAppendAny
    \/ RaceDateAny
    \/ RaceResetAny
    \/ RaceReadAny
    \/ RaceWriteAny
    \/ RaceSaveAny
    \/ RaceTick

SpecRace == InitPlain /\ [][NextRace]_vars

\* the sum of the costs of the calls of race_log[1..n] recorded on `date`
RECURSIVE CostOn(_, _)
CostOn(date, n) ==
    IF n = 0 THEN 0
    ELSE CostOn(date, n - 1)
           + (IF race_log[n][3] = date THEN race_log[n][2] ELSE 0)

\* how many of the elements of sequence q are equal to x
Count(q, x) == Cardinality({i \in 1..Len(q) : q[i] = x})

\* C36: with the polling thread and the callback handler's thread calling
\* the gateway in any interleaving, once no _record_api_call is in progress
\* quota_used_today is the sum of the costs of the calls recorded on the
\* date the counter stands for, and api_calls holds one timestamp per
\* recorded call of the last minute.
C36_NoChargeLost ==
    (\A task \in ApiTasks : rec_pc[task] = "idle") =>
        /\ quota_used_today = CostOn(quota_reset_date, Len(race_log))
        /\ \A i \in 1..Len(race_log) :
              clock - race_log[i][1] <= RateWindow
                 => Count(api_calls, race_log[i][1])
                       = Count([k \in 1..Len(race_log) |-> race_log[k][1]],
                               race_log[i][1])

(***************************************************************************)
(* Claims about the sweep and the callback task (SpecConc)                 *)
(***************************************************************************)
\* the payloads enqueued since the running sweep took its copy
EnqueuedInSweep ==
    IF sweep_pc = "clear" THEN Payloads(failed_events) \ Payloads(failed_copy)
    ELSE IF sweep_pc = "entry" THEN Payloads(failed_events)
    ELSE {}

\* C37: an event that a forward_event call of the callback task enqueues
\* while the polling task executes a retry sweep stays in the ring through
\* every step of the sweep, unless it is delivered or pushed out by the
\* ring's capacity.
C37_EnqueueDuringSweepKept ==
    [][\A p \in EnqueuedInSweep :
          \/ p \in Payloads(failed_events')
          \/ p \in delivered'
          \/ p \in dropped_overflow']_vars

(***************************************************************************)
(* Claims about the loop's periodic work (SpecLifecycle)                   *)
(***************************************************************************)
\* C38: counting every iteration of the polling loop from 0, those whose
\* check raised included, the loop calls retry_failed_events in the
\* iterations whose number is a multiple of 10 and in no other, and
\* _save_state in the iterations whose number is a multiple of 5 and in no
\* other.
C38_PeriodicSweepAndSave ==
    [][/\ (pc = "post_check" /\ pc' # pc)
             => (pc' = "sweep" <=> cycles % SweepEvery = 0)
       /\ (pc = "sleep" /\ pc' = "loop" /\ cycles % SaveEvery # 0)
             => UNCHANGED <<state_file, last_save>>
       /\ (pc = "except" /\ pc' = "loop")
             => (cycles % SweepEvery # 0 /\ cycles % SaveEvery # 0)]_vars

(***************************************************************************)
(* SpecChat: the chat cursor of one video over checks, saves and a new     *)
(* start of the monitor.  The chat call answers with nothing (the      *)
(* gateway's {} for a failed call or an empty answer) or with a page of    *)
(* one message and a cursor.                                               *)
(***************************************************************************)
ChatLists == {<<"V1">>, <<>>}
ChatPages == {EmptyDict, Page(<<"textMessageEvent">>, "t1")}

ChatCheckStart ==
    /\ cycles < MaxChatCycles
    /\ LoopCheckStartOn({"ok"}, ChatLists)

\* the details of a live video that has a chat
ChatPayloads == {Item(TRUE, 100, TRUE)}

ChatLightItem == LightItemOn(ChatPayloads)

ChatFullItem == FullItemOn(ChatPayloads, FALSE)

CursorChat == MonitorChatWith(ChatPages, FALSE)

ChatSleep == SleepOn({"ok"})

NextChat ==
    \/ ChatCheckStart
    \/ ChatLightItem
    \/ ChatFullItem
    \/ CursorChat
    \/ FullCollectEnded
    \/ EndedItem
    \/ PostCheck
    \/ LoopSweepClear
    \/ LoopSweepEntry
    \/ LoopSweepReturn
    \/ ChatSleep
    \/ Restart

SpecChat == InitPlain /\ [][NextChat]_vars

NextSweep ==
    \/ CallbackForwardEvent
    \/ FwdSweepCopy
    \/ FwdSweepClear
    \/ FwdSweepEntry
    \/ FwdSweepReturn

SpecSweep ==
    /\ InitPlain
    /\ [][NextSweep]_vars
    /\ WF_vars(FwdSweepClear)
    /\ WF_vars(FwdSweepEntry)
    /\ WF_vars(FwdSweepReturn)

\* one turn of the sweep's loop is taken: a step inside the sweep that is
\* not a top-level call of another task
SweepTurn ==
    /\ sweep_pc = "entry"
    /\ handed' = handed
    /\ <<calls, failed_copy>>' # <<calls, failed_copy>>

\* C40: a retry sweep comes to its end whatever the receiver answers; each
\* turn of its loop takes the next entry of the copy made at its start and
\* makes at most one forward_event call for it (at most 4 POSTs, the sleeps
\* of which add up to 7 s at most), and what is enqueued during the sweep,
\* by the sweep or by another task, never enters the copy.
C40_SweepTerminates ==
    /\ [][/\ SweepTurn =>
                /\ failed_copy' = Tail(failed_copy)
                /\ calls' - calls \in {0, 1}
                /\ clock' - clock \in {0, 1, 3, 7}
          /\ sweep_pc \in {"clear", "entry"} =>
                \/ failed_copy' = failed_copy
                \/ failed_copy' = Tail(failed_copy)]_vars
    /\ [](sweep_pc \in {"clear", "entry"}
             => Len(failed_copy) <= sweep0.len)
    /\ (sweep_pc \in {"clear", "entry"}) ~> (sweep_pc = "idle")

\* a sweep over two entries has ended with the receiver down all along and
\* with an event of the callback task enqueued while it ran
C40_Witness ==
    /\ sweep_pc = "done"
    /\ sweep0.len = 2
    /\ delivered = {}
    /\ handed = 3
    /\ Len(failed_events) = RingCapacity
====
